---- MODULE Spec2Model ----
(***************************************************************************)
(* Brandenburg Flood Risk: the polygon-created analysis run of FloodMap,   *)
(* the App callbacks it drives, and the Overpass fetch functions           *)
(* fetchBuildingsInPolygon and fetchTransportationInPolygon.               *)
(*                                                                         *)
(* One JavaScript job (the code between two awaits) is one action: the     *)
(* event loop runs a job to completion before any other job starts.        *)
(***************************************************************************)
EXTENDS Integers, Sequences, FiniteSets, TLC

----------------------------------------------------------------------------
(* Program constants *)

\* OVERPASS_ENDPOINTS.length
NumEndpoints == 3
\* for (let attempt = 0; attempt < 2; attempt++)
MaxAttempts == 2
\* setTimeout(resolve, 2000) in the catch of fetchBuildingsInPolygon
RetryWaitMs == 2000
\* mutant: the 429 branch waits as the catch does
RateLimitWaitMs_asRetry == RetryWaitMs
\* setTimeout(resolve, 5000) after a 429
RateLimitWaitMs == 5000
\* setTimeout(resolve, 1000) in the catch of fetchTransportationInPolygon
TransportWaitMs == 1000
\* if (buildings.length > 1000)
ConfirmThreshold == 1000

OVERPASS_ENDPOINTS == 0..(NumEndpoints - 1)

----------------------------------------------------------------------------
(* Bounds *)

\* building counts 0..MaxSmall and ConfirmThreshold-1..ConfirmThreshold+MaxOver
MaxSmall == 1
MaxOver == 1

BuildingCounts ==
  (0..MaxSmall) \cup ((ConfirmThreshold - 1)..(ConfirmThreshold + MaxOver))

----------------------------------------------------------------------------
(* Values *)

\* what a request can be answered with: response.ok, status 429, 503, 504,
\* any other status, or fetch() rejecting
Responses == {"ok", "r429", "r503", "r504", "rOther", "netErr"}

Tiers == {"extreme", "high", "medium"}
OptionalPaths == {"population", "landCover", "transportation"}

NoData == [id |-> 0, n |-> 0, valid |-> FALSE]

\* useState(null) of analysisResults, and what clearing sets it to
NullResults ==
  [kind |-> "null", buildings |-> 0, population |-> "null",
   landCover |-> "null", transportation |-> "null"]

VARIABLES
  \* App.jsx state
  isAnalyzing, analysisResults, progress,
  \* the calls the run made on the four callbacks FloodMap is given, in order
  calls,
  \* the CREATED handler
  pc, layerOnMap, popup, buildingsLength, confirmAsked, proceed, rasterLoads,
  \* the services as the run finds them when it starts the analysis
  wms, optFails,
  \* the executing fetch function
  fn, fpc, endpointIndex, attempt, lastError, thrown, result, sleepMs,
  \* the requests the fetch function issued
  reqCount, reqTotal, lastReq, prevReq, lastResp, waited, okAt,
  \* the answers the run of the fetch function has had so far
  respSeen,
  \* a service function called on its own: its name, position, arguments
  \* and return value
  libFn, libPc, libArg, libRet,
  \* a tagging pass: the loadFloodLayerImage calls in order, the image each
  \* tier's load delivered, the onProgress notifications in order
  loadLog, images, notes,
  \* censusPopulationService: the commune file on the server, the
  \* module-level cache, the executing calls, the number of fetches so far
  communesFile, communesData, loaders, fetched,
  \* FloodMap over a session: the runs of the CREATED handler, one per
  \* polygon drawn; the state activeFloodLayers; the activeFloodLayers constant
  \* of the render whose effect registered the handler; the layers in
  \* drawnItems; the Clear Analysis clicks so far
  runs, layerState, closureLayers, drawnItems, clears

appVars == <<isAnalyzing, analysisResults, progress, calls>>
runVars ==
  <<pc, layerOnMap, popup, buildingsLength, confirmAsked, proceed, rasterLoads>>
envVars == <<wms, optFails>>
loopVars == <<fn, fpc, endpointIndex, attempt, lastError, thrown, result, sleepMs>>
reqVars ==
  <<reqCount, reqTotal, lastReq, prevReq, lastResp, waited, okAt, respSeen>>
fetchVars == <<loopVars, reqVars>>
sessionVars == <<runs, layerState, closureLayers, drawnItems, clears>>
handlerVars == <<appVars, runVars, envVars, sessionVars>>
callVars == <<libFn, libPc, libArg, libRet>>
passVars == <<loadLog, images, notes>>
censusVars == <<communesFile, communesData, loaders, fetched>>
libVars == <<callVars, passVars, censusVars>>
vars == <<handlerVars, fetchVars, libVars>>

----------------------------------------------------------------------------
(* fetchBuildingsInPolygon / fetchTransportationInPolygon *)

\* await fetch(url): one request to endpoint e, w ms after the previous answer
SendRequest(e, a, w) ==
  /\ fpc' = "awaitResp"
  /\ endpointIndex' = e
  /\ attempt' = a
  /\ reqCount' = [reqCount EXCEPT ![e] = @ + 1]
  /\ reqTotal' = reqTotal + 1
  /\ prevReq' = lastReq
  /\ lastReq' = e
  /\ waited' = w
  /\ UNCHANGED <<thrown, sleepMs>>

\* the function's promise rejects with err, w ms after the last answer
Reject(e, err, w) ==
  /\ fpc' = "rejected"
  /\ thrown' = err
  /\ endpointIndex' = e
  /\ attempt' = 0
  /\ waited' = w
  /\ UNCHANGED <<reqCount, reqTotal, prevReq, lastReq, sleepMs>>

\* await new Promise(resolve => setTimeout(resolve, ms))
Sleep(ms) ==
  /\ fpc' = "sleep"
  /\ sleepMs' = ms
  /\ UNCHANGED <<endpointIndex, attempt, thrown>>
  /\ UNCHANGED <<reqCount, reqTotal, prevReq, lastReq, waited>>

\* mutant: the function ends after the loops without the final throw
ContinueAt_noThrow(e, a, le, w) ==
  IF e < NumEndpoints
    THEN SendRequest(e, a, w)
    ELSE /\ fpc' = "resolved"
         /\ endpointIndex' = e
         /\ attempt' = 0
         /\ waited' = w
         /\ UNCHANGED <<thrown, reqCount, reqTotal, prevReq, lastReq, sleepMs>>

\* the loop heads of fetchBuildingsInPolygon at (e, a), and the throw after them
ContinueAt(e, a, le, w) ==
  IF e < NumEndpoints
    THEN SendRequest(e, a, w)
    ELSE Reject(e, IF le # "undefined" THEN le ELSE "ErrAllFailed", w)

\* mutant: attempt <= 2 as the inner loop's condition
NextAttempt_offByOne(e, a, le, w) ==
  IF a + 1 <= MaxAttempts
    THEN ContinueAt(e, a + 1, le, w)
    ELSE ContinueAt(e + 1, 0, le, w)

\* attempt++ of the inner loop
NextAttempt(e, a, le, w) ==
  IF a + 1 < MaxAttempts
    THEN ContinueAt(e, a + 1, le, w)
    ELSE ContinueAt(e + 1, 0, le, w)

\* mutant: continue in place of break
NextEndpoint_continue(e, le, w) == NextAttempt(e, attempt, le, w)

\* break out of the inner loop: endpointIndex++
NextEndpoint(e, le, w) == ContinueAt(e + 1, 0, le, w)

\* the caller invokes fetchBuildingsInPolygon: it runs to its first await
CallFetchBuildings ==
  /\ fn' = "buildings"
  /\ lastError' = "undefined"
  /\ result' = NoData
  /\ lastResp' = "none"
  /\ respSeen' = {}
  /\ okAt' = 0
  /\ ContinueAt(0, 0, "undefined", 0)

\* response.ok: return await response.json()
BuildingsRespOk ==
  /\ fn = "buildings" /\ fpc = "awaitResp"
  /\ UNCHANGED <<handlerVars, libVars>>
  /\ \E n \in BuildingCounts, v \in BOOLEAN :
       result' = [id |-> reqTotal, n |-> n, valid |-> v]
  /\ fpc' = "resolved"
  /\ lastResp' = "ok"
  /\ respSeen' = respSeen \cup {"ok"}
  /\ okAt' = reqTotal
  /\ UNCHANGED <<fn, endpointIndex, attempt, lastError, thrown, sleepMs>>
  /\ UNCHANGED <<reqCount, reqTotal, lastReq, prevReq, waited>>

\* status 429: wait 5000 ms, then continue
BuildingsResp429 ==
  /\ fn = "buildings" /\ fpc = "awaitResp"
  /\ UNCHANGED <<handlerVars, libVars>>
  /\ lastResp' = "r429"
  /\ respSeen' = respSeen \cup {"r429"}
  /\ Sleep(RateLimitWaitMs)
  /\ UNCHANGED <<fn, lastError, result, okAt>>

\* status 503 or 504: lastError = Server timeout; break
BuildingsRespTimeout ==
  /\ fn = "buildings" /\ fpc = "awaitResp"
  /\ UNCHANGED <<handlerVars, libVars>>
  /\ \E r \in {"r503", "r504"} :
       lastResp' = r /\ respSeen' = respSeen \cup {r}
  /\ lastError' = "ErrServerTimeout"
  /\ NextEndpoint(endpointIndex, "ErrServerTimeout", 0)
  /\ UNCHANGED <<fn, result, okAt>>

\* any other status: lastError = request failed with status; fall out of the try
BuildingsRespOther ==
  /\ fn = "buildings" /\ fpc = "awaitResp"
  /\ UNCHANGED <<handlerVars, libVars>>
  /\ lastResp' = "rOther"
  /\ respSeen' = respSeen \cup {"rOther"}
  /\ lastError' = "ErrStatus"
  /\ NextAttempt(endpointIndex, attempt, "ErrStatus", 0)
  /\ UNCHANGED <<fn, result, okAt>>

\* fetch() rejects: catch, lastError = error, wait 2000 ms if attempt < 1
BuildingsNetErr ==
  /\ fn = "buildings" /\ fpc = "awaitResp"
  /\ UNCHANGED <<handlerVars, libVars>>
  /\ lastResp' = "netErr"
  /\ respSeen' = respSeen \cup {"netErr"}
  /\ lastError' = "ErrNetwork"
  /\ IF attempt < 1
       THEN Sleep(RetryWaitMs)
       ELSE NextAttempt(endpointIndex, attempt, "ErrNetwork", 0)
  /\ UNCHANGED <<fn, result, okAt>>

\* the timer of a wait fires: the loop goes on with attempt++
BuildingsTimer ==
  /\ fn = "buildings" /\ fpc = "sleep"
  /\ UNCHANGED <<handlerVars, libVars>>
  /\ NextAttempt(endpointIndex, attempt, lastError, sleepMs)
  /\ UNCHANGED <<fn, lastError, result, lastResp, okAt, respSeen>>

\* the caller invokes fetchTransportationInPolygon
CallFetchTransportation ==
  /\ fn' = "transportation"
  /\ lastError' = "undefined"
  /\ result' = NoData
  /\ lastResp' = "none"
  /\ respSeen' = {}
  /\ okAt' = 0
  /\ SendRequest(0, 0, 0)

\* response.ok: return data
TransportRespOk ==
  /\ fn = "transportation" /\ fpc = "awaitResp"
  /\ UNCHANGED <<handlerVars, libVars>>
  /\ \E n \in BuildingCounts, v \in BOOLEAN :
       result' = [id |-> reqTotal, n |-> n, valid |-> v]
  /\ fpc' = "resolved"
  /\ lastResp' = "ok"
  /\ respSeen' = respSeen \cup {"ok"}
  /\ okAt' = reqTotal
  /\ UNCHANGED <<fn, endpointIndex, attempt, lastError, thrown, sleepMs>>
  /\ UNCHANGED <<reqCount, reqTotal, lastReq, prevReq, waited>>

\* !response.ok throws, fetch() rejects: the catch throws on the last endpoint
\* and waits 1000 ms on the others
TransportFail ==
  /\ fn = "transportation" /\ fpc = "awaitResp"
  /\ UNCHANGED <<handlerVars, libVars>>
  /\ \E r \in Responses \ {"ok"} :
       lastResp' = r /\ respSeen' = respSeen \cup {r}
  /\ IF endpointIndex = NumEndpoints - 1
       THEN Reject(endpointIndex, "ErrAllFailedLast", 0)
       ELSE Sleep(TransportWaitMs)
  /\ UNCHANGED <<fn, lastError, result, okAt>>

\* the 1000 ms timer fires: i++
TransportTimer ==
  /\ fn = "transportation" /\ fpc = "sleep"
  /\ UNCHANGED <<handlerVars, libVars>>
  /\ SendRequest(endpointIndex + 1, 0, sleepMs)
  /\ UNCHANGED <<fn, lastError, result, lastResp, okAt, respSeen>>

----------------------------------------------------------------------------
(* App.jsx: the callbacks handed to FloodMap *)

UI == [isAnalyzing |-> isAnalyzing, analysisResults |-> analysisResults,
       progress |-> progress, calls |-> calls]

SetUI(u) ==
  /\ isAnalyzing' = u.isAnalyzing
  /\ analysisResults' = u.analysisResults
  /\ progress' = u.progress
  /\ calls' = u.calls

Call(cb, current, total, val) ==
  [cb |-> cb, current |-> current, total |-> total, val |-> val]

NoProgress == [current |-> 0, total |-> 0]

\* onAnalysisStart={() => setIsAnalyzing(true)}
onAnalysisStart(u) ==
  [u EXCEPT !.isAnalyzing = TRUE,
            !.calls = Append(@, Call("start", 0, 0, "none"))]

\* onAnalysisComplete: setAnalysisResults, setIsAnalyzing(false), setProgress
onAnalysisComplete(u, results) ==
  [u EXCEPT !.analysisResults = results,
            !.isAnalyzing = FALSE,
            !.progress = NoProgress,
            !.calls = Append(@, Call("complete", 0, results.buildings,
                                     results.kind))]

\* onAnalysisError: setIsAnalyzing(false), setProgress
onAnalysisError(u, error) ==
  [u EXCEPT !.isAnalyzing = FALSE,
            !.progress = NoProgress,
            !.calls = Append(@, Call("error", 0, 0, error))]

\* onProgress={setProgress}
onProgress(u, current, total) ==
  [u EXCEPT !.progress = [current |-> current, total |-> total],
            !.calls = Append(@, Call("progress", current, total, "none"))]

----------------------------------------------------------------------------
(* floodAnalysisService: how analyzeBuildingsFloodRisk is entered *)

\* the arguments of the call in the CREATED handler, by position
AnalyzeCallArgs == <<"buildings", "mapBounds", "activeFloodLayers", "onProgress">>

\* export async function analyzeBuildingsFloodRisk(buildings, mapBounds, onProgress)
AnalyzeParams == <<"buildings", "mapBounds", "onProgress">>

\* the value a parameter of analyzeBuildingsFloodRisk is bound to
BoundArg(param) ==
  LET i == CHOOSE k \in 1..Len(AnalyzeParams) : AnalyzeParams[k] = param
  IN  IF i <= Len(AnalyzeCallArgs) THEN AnalyzeCallArgs[i] ELSE "undefined"

\* typeof of the handler's values: the prop onProgress is a function, the
\* state activeFloodLayers and the other values are objects
JsType(v) ==
  CASE v = "onProgress" -> "function"
    [] v = "undefined" -> "undefined"
    [] OTHER -> "object"

Truthy(v) == JsType(v) # "undefined"
Callable(v) == JsType(v) = "function"

\* if (onProgress) { onProgress({...}) } before the raster loads: calling a
\* value that is not a function throws a TypeError, which the catch rethrows
AnalyzeEntryThrows ==
  Truthy(BoundArg("onProgress")) /\ ~Callable(BoundArg("onProgress"))

----------------------------------------------------------------------------
(* FloodMap.jsx: the L.Draw.Event.CREATED handler *)

\* mutant: the final Error's message does not name Overpass
MessageWords_allFailedUnnamed(error) ==
  CASE error = "ErrServerTimeout" -> {"timeout", "too large"}
    [] error = "ErrStatus" -> {"Overpass"}
    [] OTHER -> {}

\* the keywords the catch block looks for in error.message
MessageWords(error) ==
  CASE error = "ErrServerTimeout" -> {"timeout", "too large"}
    [] error = "ErrStatus" -> {"Overpass"}
    [] error = "ErrAllFailed" -> {"Overpass"}
    [] OTHER -> {}

\* the friendly message the catch block puts in the popup
ErrorMessage(error) ==
  IF "timeout" \in MessageWords(error) \/ "too large" \in MessageWords(error)
    THEN "AreaTooLarge"
    ELSE IF "Overpass" \in MessageWords(error)
           THEN "FetchUnavailable"
           ELSE "Generic"

\* mutant: the first notification counts the fetch as step 1
FetchingProgress_stepOne == [current |-> 1, total |-> 1]

\* onProgress({ current: 0, total: 0, message: 'Fetching buildings...' })
FetchingProgress == [current |-> 0, total |-> 0]

\* onProgress({ current: 0, total: buildings.length, message: 'Found ...' })
FoundProgress(n) == [current |-> 0, total |-> n]

\* mutant: >= in place of >
NeedsConfirm_atThreshold(n) == n >= ConfirmThreshold

\* if (buildings.length > 1000)
NeedsConfirm(n) == n > ConfirmThreshold

\* mutant: the catch block shows the popup and does not report the error
Catch_popupOnly(u, error) ==
  /\ popup' = ErrorMessage(error)
  /\ SetUI(u)
  /\ pc' = "done"

\* catch (error) { ... layer.bindPopup(...); onAnalysisError(error) }
Catch(u, error) ==
  /\ popup' = ErrorMessage(error)
  /\ SetUI(onAnalysisError(u, error))
  /\ pc' = "done"

\* map.on(CREATED): addLayer, onAnalysisStart, onProgress, the fetch is started
Created ==
  /\ pc = "idle"
  /\ layerOnMap' = TRUE
  /\ SetUI(onProgress(onAnalysisStart(UI),
                       FetchingProgress.current, FetchingProgress.total))
  /\ CallFetchBuildings
  /\ pc' = "awaitFetch"
  /\ UNCHANGED <<popup, buildingsLength, confirmAsked, proceed, rasterLoads>>
  /\ UNCHANGED <<envVars, libVars, sessionVars>>

\* await fetchBuildingsInPolygon(latlngs) rejects
FetchRejected ==
  /\ pc = "awaitFetch" /\ fn = "buildings" /\ fpc = "rejected"
  /\ Catch(UI, thrown)
  /\ UNCHANGED <<layerOnMap, buildingsLength, confirmAsked, proceed>>
  /\ UNCHANGED <<rasterLoads, envVars, fetchVars, libVars, sessionVars>>

\* processBuildings(osmData) throws on data without an elements array
ProcessThrows ==
  /\ pc = "awaitFetch" /\ fn = "buildings" /\ fpc = "resolved"
  /\ ~result.valid
  /\ Catch(UI, "TypeErrorElements")
  /\ UNCHANGED <<layerOnMap, buildingsLength, confirmAsked, proceed>>
  /\ UNCHANGED <<rasterLoads, envVars, fetchVars, libVars, sessionVars>>

\* the handler's second notification, on the normalised buildings
Found(u, n) == onProgress(u, FoundProgress(n).current, FoundProgress(n).total)

\* more than 1000 buildings and window.confirm answers false
Cancelled ==
  /\ pc = "awaitFetch" /\ fn = "buildings" /\ fpc = "resolved"
  /\ result.valid
  /\ NeedsConfirm(result.n)
  /\ buildingsLength' = result.n
  /\ confirmAsked' = confirmAsked + 1
  /\ proceed' = "no"
  /\ layerOnMap' = FALSE
  /\ SetUI(onAnalysisError(Found(UI, result.n), "ErrCancelled"))
  /\ pc' = "done"
  /\ UNCHANGED <<popup, rasterLoads, envVars>>
  /\ UNCHANGED <<fetchVars, libVars, sessionVars>>

\* at most 1000 buildings, or window.confirm answers true:
\* analyzeBuildingsFloodRisk(buildings, mapBounds, activeFloodLayers, onProgress)
StartAnalysis ==
  /\ pc = "awaitFetch" /\ fn = "buildings" /\ fpc = "resolved"
  /\ result.valid
  /\ buildingsLength' = result.n
  /\ confirmAsked' = IF NeedsConfirm(result.n)
                       THEN confirmAsked + 1 ELSE confirmAsked
  /\ proceed' = IF NeedsConfirm(result.n) THEN "yes" ELSE proceed
  /\ wms' \in [Tiers -> BOOLEAN]
  /\ optFails' \in SUBSET OptionalPaths
  /\ IF AnalyzeEntryThrows
       THEN /\ Catch(Found(UI, result.n), "TypeErrorNotFunction")
            /\ UNCHANGED <<layerOnMap, rasterLoads>>
       ELSE /\ SetUI(IF Callable(BoundArg("onProgress"))
                       THEN onProgress(Found(UI, result.n), 0, result.n)
                       ELSE Found(UI, result.n))
            /\ rasterLoads' = Cardinality(Tiers)
            /\ pc' = "awaitRasters"
            /\ UNCHANGED <<layerOnMap, popup>>
  /\ UNCHANGED <<fetchVars, libVars, sessionVars>>

----------------------------------------------------------------------------
(* Specifications *)

\* useState({ extreme: true, high: false, medium: false })
InitialFloodLayers == [t \in Tiers |-> t = "extreme"]

InitFetchVars ==
  /\ fn = "none" /\ fpc = "idle"
  /\ endpointIndex = 0 /\ attempt = 0
  /\ lastError = "undefined" /\ thrown = "none"
  /\ result = NoData /\ sleepMs = 0
  /\ reqCount = [e \in OVERPASS_ENDPOINTS |-> 0]
  /\ reqTotal = 0 /\ lastReq = -1 /\ prevReq = -1
  /\ lastResp = "none" /\ waited = 0 /\ okAt = 0
  /\ respSeen = {}

InitHandlerVars ==
  /\ isAnalyzing = FALSE /\ analysisResults = NullResults
  /\ progress = NoProgress /\ calls = <<>>
  /\ layerOnMap = FALSE /\ popup = "none"
  /\ buildingsLength = 0 /\ confirmAsked = 0 /\ proceed = "none"
  /\ rasterLoads = 0
  /\ wms = [t \in Tiers |-> TRUE] /\ optFails = {}
  /\ runs = <<>> /\ drawnItems = {} /\ clears = 0
  /\ layerState = InitialFloodLayers
  /\ closureLayers = InitialFloodLayers

\* no service function has been called on its own
InitCallVars ==
  /\ libFn = "none" /\ libPc = "idle" /\ libArg = <<>> /\ libRet = <<>>

InitPassVars ==
  /\ loadLog = <<>> /\ images = [t \in Tiers |-> "none"] /\ notes = <<>>

\* let communesData = null, and nobody has called the census service
InitCensusVars ==
  /\ communesFile = <<>> /\ communesData = 0
  /\ loaders = <<>> /\ fetched = 0

InitLibVars == InitCallVars /\ InitPassVars /\ InitCensusVars

\* the application: the map is set up, no polygon has been drawn
Init == pc = "idle" /\ InitHandlerVars /\ InitFetchVars /\ InitLibVars

FetchBuildingsStep ==
  \/ BuildingsRespOk
  \/ BuildingsResp429
  \/ BuildingsRespTimeout
  \/ BuildingsRespOther
  \/ BuildingsNetErr
  \/ BuildingsTimer

Next ==
  \/ Created
  \/ FetchBuildingsStep
  \/ FetchRejected
  \/ ProcessThrows
  \/ Cancelled
  \/ StartAnalysis

Spec == Init /\ [][Next]_vars

\* the two exported fetch functions, each called with a polygon
InitFetch == pc = "direct" /\ InitHandlerVars /\ InitFetchVars /\ InitLibVars

DirectFetchBuildings ==
  /\ pc = "direct" /\ fpc = "idle"
  /\ CallFetchBuildings
  /\ UNCHANGED <<handlerVars, libVars>>

DirectFetchTransportation ==
  /\ pc = "direct" /\ fpc = "idle"
  /\ CallFetchTransportation
  /\ UNCHANGED <<handlerVars, libVars>>

FetchTransportationStep ==
  \/ TransportRespOk
  \/ TransportFail
  \/ TransportTimer

NextFetch ==
  \/ DirectFetchBuildings
  \/ DirectFetchTransportation
  \/ FetchBuildingsStep
  \/ FetchTransportationStep

\* every request is answered or fails, and every timer fires
SpecFetch == InitFetch /\ [][NextFetch]_vars /\ WF_vars(NextFetch)

----------------------------------------------------------------------------
(* floodAnalysisService: isPointFlooded *)

\* Coordinates are whole numbers of hundredths of a degree, so the
\* quotients of isPointFlooded are exact.
IMAGE_WIDTH == 800
IMAGE_HEIGHT == 800

\* the map bounds of a request: 0.1 degree wide and high
BoxSpan == 10
MapBounds ==
  {[west |-> w, south |-> s, east |-> w + BoxSpan, north |-> s + BoxSpan] :
     w \in {1300}, s \in {5200}}

\* how far outside the box a queried point may lie
MaxOff == 1
Lons(b) == (b.west - MaxOff)..(b.east + MaxOff)
Lats(b) == (b.south - MaxOff)..(b.north + MaxOff)

\* the values a colour channel of a pixel takes
Channels == {0, 10, 11, 200}
Colours == [r : Channels, g : Channels, b : Channels, a : Channels]
Transparent == [r |-> 0, g |-> 0, b |-> 0, a |-> 0]

\* what loadFloodLayerImage resolves with: the canvas holds `ink` on the
\* pixels right of and below `from`, and is transparent elsewhere
ImageData(b, from, ink) ==
  [bounds |-> b, width |-> IMAGE_WIDTH, height |-> IMAGE_HEIGHT,
   from |-> from, ink |-> ink]

\* ctx.getImageData(x, y, 1, 1).data
getImageData(imageData, x, y) ==
  IF x >= imageData.from[1] /\ y >= imageData.from[2]
    THEN imageData.ink ELSE Transparent

\* Math.floor(n / d) for d > 0
Floor(n, d) == n \div d

\* the pixel coordinates isPointFlooded computes
PixelX(lon, imageData) ==
  Floor((lon - imageData.bounds.west) * imageData.width,
        imageData.bounds.east - imageData.bounds.west)
PixelY(lat, imageData) ==
  Floor((imageData.bounds.north - lat) * imageData.height,
        imageData.bounds.north - imageData.bounds.south)

OutOfGrid_inclusive(x, y, imageData) ==
  x < 0 \/ x > imageData.width \/ y < 0 \/ y > imageData.height
OutOfGrid(x, y, imageData) ==
  x < 0 \/ x >= imageData.width \/ y < 0 \/ y >= imageData.height

isPointFlooded(lat, lon, imageData) ==
  LET x == PixelX(lon, imageData)
      y == PixelY(lat, imageData)
      p == getImageData(imageData, x, y)
  IN  IF OutOfGrid(x, y, imageData)
        THEN FALSE
        ELSE p.a > 10 /\ (p.r > 10 \/ p.g > 10 \/ p.b > 10)

\* isPointFlooded called with a point and an image
InitCallVarsPoint ==
  /\ libFn = "isPointFlooded" /\ libPc = "called" /\ libRet = <<>>
  /\ \E b \in MapBounds, from \in {<<0, 0>>, <<400, 400>>}, ink \in Colours :
       \E lat \in Lats(b), lon \in Lons(b) :
         libArg = [lat |-> lat, lon |-> lon,
                   imageData |-> ImageData(b, from, ink)]

InitPoint ==
  /\ pc = "direct" /\ InitHandlerVars /\ InitFetchVars
  /\ InitCallVarsPoint /\ InitPassVars /\ InitCensusVars

ReturnIsPointFlooded ==
  /\ libFn = "isPointFlooded" /\ libPc = "called"
  /\ libRet' = isPointFlooded(libArg.lat, libArg.lon, libArg.imageData)
  /\ libPc' = "returned"
  /\ UNCHANGED <<libFn, libArg, passVars, censusVars>>
  /\ UNCHANGED <<handlerVars, fetchVars>>

NextPoint == ReturnIsPointFlooded

SpecPoint == InitPoint /\ [][NextPoint]_vars

----------------------------------------------------------------------------
(* transportationService: samplePointsAlongRoad, calculateRoadLength *)

\* Roads run along one meridian; a latitude is a whole number of metres of
\* arc, so that the great-circle distance of two nodes is the difference of
\* their latitudes and every interpolated point has a whole latitude.
SampleInterval == 50
RoadLon == 400

\* the latitudes of road nodes: multiples of 10 m up to 10 * MaxDeca
MaxDeca == 15
RoadLats == {10 * k : k \in 0..MaxDeca}
Node(lat) == [lat |-> lat, lon |-> RoadLon]

\* a road of processTransportation has at least two nodes
MaxNodes == 3
NodeLists ==
  UNION {[1..n -> {Node(lat) : lat \in RoadLats}] : n \in 2..MaxNodes}

Abs(x) == IF x < 0 THEN -x ELSE x

haversineDistance(lat1, lon1, lat2, lon2) == Abs(lat2 - lat1)

\* the points the inner loop pushes for j = 1..numIntermediate
IntermediatePoints(start, end, segmentDistance, intervalMeters) ==
  LET numIntermediate == Floor(segmentDistance, intervalMeters)
  IN  [j \in 1..numIntermediate |->
         [lat |-> start.lat
                  + ((end.lat - start.lat) * (j * intervalMeters))
                      \div segmentDistance,
          lon |-> start.lon
                  + ((end.lon - start.lon) * (j * intervalMeters))
                      \div segmentDistance]]

\* one pass of the outer loop: the start point, then the intermediate points
SegmentSamples(start, end, intervalMeters) ==
  LET segmentDistance ==
        haversineDistance(start.lat, start.lon, end.lat, end.lon)
  IN  <<start>> \o
      (IF segmentDistance > intervalMeters
         THEN IntermediatePoints(start, end, segmentDistance, intervalMeters)
         ELSE <<>>)

RECURSIVE SamplesFrom(_, _, _)
SamplesFrom(nodes, i, intervalMeters) ==
  IF i >= Len(nodes)
    THEN <<>>
    ELSE SegmentSamples(nodes[i], nodes[i + 1], intervalMeters)
           \o SamplesFrom(nodes, i + 1, intervalMeters)

samplePointsAlongRoad(nodes, intervalMeters) ==
  SamplesFrom(nodes, 1, intervalMeters) \o <<nodes[Len(nodes)]>>

\* totalDistance of calculateRoadLength, in metres
RECURSIVE TotalDistance(_, _)
TotalDistance(nodes, i) ==
  IF i >= Len(nodes)
    THEN 0
    ELSE haversineDistance(nodes[i].lat, nodes[i].lon,
                           nodes[i + 1].lat, nodes[i + 1].lon)
           + TotalDistance(nodes, i + 1)

\* a quotient num / den, den > 0
Quot(num, den) == [num |-> num, den |-> den]
QuotLeq(p, q) == p.num * q.den <= q.num * p.den

\* kilometres
calculateRoadLength(nodes) == Quot(TotalDistance(nodes, 1), 1000)

\* samplePointsAlongRoad called with the nodes of a road
InitCallVarsSample ==
  /\ libFn = "samplePointsAlongRoad" /\ libPc = "called" /\ libRet = <<>>
  /\ \E nodes \in NodeLists :
       libArg = [nodes |-> nodes, intervalMeters |-> SampleInterval]

InitSample ==
  /\ pc = "direct" /\ InitHandlerVars /\ InitFetchVars
  /\ InitCallVarsSample /\ InitPassVars /\ InitCensusVars

ReturnSamplePoints ==
  /\ libFn = "samplePointsAlongRoad" /\ libPc = "called"
  /\ libRet' = samplePointsAlongRoad(libArg.nodes, libArg.intervalMeters)
  /\ libPc' = "returned"
  /\ UNCHANGED <<libFn, libArg, passVars, censusVars>>
  /\ UNCHANGED <<handlerVars, fetchVars>>

NextSample == ReturnSamplePoints

SpecSample == InitSample /\ [][NextSample]_vars

----------------------------------------------------------------------------
(* floodAnalysisService: analyzeBuildingsFloodRisk *)

\* the map bounds of an analysis: one pixel of the 800x800 image per unit
AnalysisBounds == [west |-> 0, south |-> 0, east |-> 800, north |-> 800]

Blue == [r |-> 0, g |-> 0, b |-> 200, a |-> 200]

\* the images the WMS server may deliver for a tier
Contents == {"dry", "wetAll", "wetPart"}
Canvas(content) ==
  CASE content = "dry" -> ImageData(AnalysisBounds, <<0, 0>>, Transparent)
    [] content = "wetAll" -> ImageData(AnalysisBounds, <<0, 0>>, Blue)
    [] content = "wetPart" -> ImageData(AnalysisBounds, <<400, 700>>, Blue)

\* the order of the three loads in Promise.all, and of the else-if chains
TierOrder == <<"extreme", "high", "medium">>

\* buildings as processBuildings and the handler's categorizeBuildingType
\* deliver them
categorizeBuildingType(buildingType) ==
  CASE buildingType = "house" -> "Residential"
    [] buildingType = "school" -> "Infrastructure"
    [] OTHER -> "Other"

BuildingTypes == {"house", "school", "yes"}
Centroids == {Node(0), Node(50), Node(120)}
Buildings ==
  {[type |-> t, category |-> categorizeBuildingType(t), centroid |-> c] :
     t \in BuildingTypes, c \in Centroids}

\* the lists a pass is given: long lists of one item, and every short list
MaxItems == 102
MaxList == 2
Repeat(x, n) == [i \in 1..n |-> x]
ListsOf(S) == UNION {[1..n -> S] : n \in 0..MaxList}
BuildingLists ==
  {Repeat([type |-> "house", category |-> "Residential",
           centroid |-> Node(50)], n) : n \in 1..MaxItems}
    \cup ListsOf(Buildings)

\* let highestRisk = 'none'; if (isMedium) ...; if (isHigh) ...; if (isExtreme) ...
HighestRisk_mediumLast(isExtreme, isHigh, isMedium) ==
  LET r1 == IF isExtreme THEN "extreme" ELSE "none"
      r2 == IF isHigh THEN "high" ELSE r1
  IN  IF isMedium THEN "medium" ELSE r2
HighestRisk(isExtreme, isHigh, isMedium) ==
  LET r1 == IF isMedium THEN "medium" ELSE "none"
      r2 == IF isHigh THEN "high" ELSE r1
  IN  IF isExtreme THEN "extreme" ELSE r2

\* the body of buildings.forEach: the building with its floodRisk
TagBuilding(building, imgs) ==
  LET lat == building.centroid.lat
      lon == building.centroid.lon
      isExtreme == isPointFlooded(lat, lon, Canvas(imgs["extreme"]))
      isHigh == isPointFlooded(lat, lon, Canvas(imgs["high"]))
      isMedium == isPointFlooded(lat, lon, Canvas(imgs["medium"]))
  IN  [type |-> building.type, category |-> building.category,
       centroid |-> building.centroid,
       floodRisk |-> [extreme |-> isExtreme, high |-> isHigh,
                      medium |-> isMedium,
                      highest |-> HighestRisk(isExtreme, isHigh, isMedium)]]

\* a notification: the item that emitted it (-1 before the loop) and the
\* counts it carries
Note(index, current, total) ==
  [index |-> index, current |-> current, total |-> total]

BuildingsProgressEvery == 50
RoadsProgressEvery == 100

\* index % 50 === 0 || index === total - 1
NotifiesAt_noFinal(index, total, every) == index % every = 0
NotifiesAt(index, total, every) ==
  index % every = 0 \/ index = total - 1

\* the notifications of a forEach over total items
ItemNotes(total, every) ==
  SelectSeq([i \in 1..total |-> Note(i - 1, i, total)],
            LAMBDA n : NotifiesAt(n.index, total, every))

\* the onProgress argument of a call: a function, nothing, or an object
ProgressArgs == {"onProgress", "undefined", "activeFloodLayers"}

\* the notifications a subscriber gets: none if no subscriber was passed
Notify(onProgressArg, ns) == IF Callable(onProgressArg) THEN ns ELSE <<>>

\* mutant: a load that fails is waited for like one that has not settled
PromiseAll_failureIgnored(imgs) ==
  IF \A t \in Tiers : imgs[t] \in Contents THEN "fulfilled" ELSE "pending"

\* await Promise.all([...]) of the three loads: rejected once one of them
\* has failed, fulfilled once all three have delivered their image
PromiseAll(imgs) ==
  IF \E t \in Tiers : imgs[t] = "failed" THEN "rejected"
  ELSE IF \A t \in Tiers : imgs[t] \in Contents THEN "fulfilled"
  ELSE "pending"

\* analyzeBuildingsFloodRisk(buildings, mapBounds, onProgress) up to the
\* await of Promise.all
CallAnalyzeBuildings ==
  /\ libPc = "idle"
  /\ \E buildings \in BuildingLists, onProgressArg \in ProgressArgs :
       /\ libFn' = "analyzeBuildingsFloodRisk"
       /\ libArg' = [items |-> buildings, onProgress |-> onProgressArg,
                     activeFloodLayers |-> [t \in Tiers |-> FALSE]]
       /\ IF Truthy(onProgressArg) /\ ~Callable(onProgressArg)
            THEN /\ libPc' = "rejected"
                 /\ UNCHANGED <<loadLog, images, notes>>
            ELSE /\ notes' = Notify(onProgressArg,
                                    <<Note(-1, 0, Len(buildings))>>)
                 /\ loadLog' = TierOrder
                 /\ images' = [t \in Tiers |-> "pending"]
                 /\ libPc' = "awaitRasters"
  /\ UNCHANGED <<libRet, censusVars, handlerVars, fetchVars>>

\* img.onload of one of the loads
LoadResolves ==
  /\ libPc = "awaitRasters"
  /\ \E t \in Tiers, content \in Contents :
       /\ images[t] = "pending"
       /\ images' = [images EXCEPT ![t] = content]
  /\ UNCHANGED <<callVars, loadLog, notes, censusVars, handlerVars, fetchVars>>

\* img.onerror of one of the three loads: Promise.all rejects, the catch
\* rethrows
BuildingsLoadRejects ==
  /\ libFn = "analyzeBuildingsFloodRisk" /\ libPc = "awaitRasters"
  /\ \E t \in Tiers :
       /\ images[t] = "pending"
       /\ images' = [images EXCEPT ![t] = "failed"]
  /\ libPc' = IF PromiseAll(images') = "rejected" THEN "rejected" ELSE libPc
  /\ UNCHANGED <<libFn, libArg, libRet, loadLog, notes>>
  /\ UNCHANGED <<censusVars, handlerVars, fetchVars>>

\* the three images are there: the second notification and the forEach
TagBuildings ==
  /\ libFn = "analyzeBuildingsFloodRisk" /\ libPc = "awaitRasters"
  /\ PromiseAll(images) = "fulfilled"
  /\ LET buildings == libArg.items
         total == Len(buildings)
     IN  /\ libRet' = [i \in 1..total |-> TagBuilding(buildings[i], images)]
         /\ notes' = notes \o
              Notify(libArg.onProgress,
                     <<Note(-1, 0, total)>>
                       \o ItemNotes(total, BuildingsProgressEvery))
  /\ libPc' = "returned"
  /\ UNCHANGED <<libFn, libArg, loadLog, images>>
  /\ UNCHANGED <<censusVars, handlerVars, fetchVars>>

----------------------------------------------------------------------------
(* transportationService: analyzeTransportationFloodRisk,
   generateTransportationStatistics *)

LayerFlags == [Tiers -> BOOLEAN]

\* if (activeFloodLayers.extreme) ... else if (.high) ... else if (.medium)
ActiveTier_lastSet(activeFloodLayers) ==
  IF activeFloodLayers["medium"] THEN "medium"
  ELSE IF activeFloodLayers["high"] THEN "high"
  ELSE IF activeFloodLayers["extreme"] THEN "extreme"
  ELSE "none"
ActiveTier(activeFloodLayers) ==
  IF activeFloodLayers["extreme"] THEN "extreme"
  ELSE IF activeFloodLayers["high"] THEN "high"
  ELSE IF activeFloodLayers["medium"] THEN "medium"
  ELSE "none"

\* roads as processTransportation delivers them
RoadTypes == {"primary", "residential"}
ShortNodeLists ==
  UNION {[1..n -> {Node(lat) : lat \in {0, 50, 100, 120}}] : n \in 2..MaxNodes}
RoadsSmall ==
  [type : RoadTypes, bridge : {"null", "yes"},
   nodes : {<<Node(50), Node(100)>>, <<Node(100), Node(150)>>}]
RoadLists ==
  {Repeat([type |-> "primary", bridge |-> "null",
           nodes |-> <<Node(50), Node(120)>>], n) : n \in 1..MaxItems}
    \cup {<<[type |-> "primary", bridge |-> "null", nodes |-> nodes]>> :
            nodes \in ShortNodeLists}
    \cup ListsOf(RoadsSmall)

\* the number of sample points isPointFlooded finds flooded; floodImage is
\* "null" when no layer was loaded
AffectedPoints_vertices(road, samplePoints, floodImage) ==
  IF floodImage = "null"
    THEN 0
    ELSE Len(SelectSeq(road.nodes \o samplePoints,
                       LAMBDA point :
                         isPointFlooded(point.lat, point.lon,
                                        Canvas(floodImage))))
AffectedPoints(road, samplePoints, floodImage) ==
  IF floodImage = "null"
    THEN 0
    ELSE Len(SelectSeq(samplePoints,
                       LAMBDA point :
                         isPointFlooded(point.lat, point.lon,
                                        Canvas(floodImage))))

\* the body of roads.forEach: the road with its floodRisk
AnalyzeRoad(road, floodImage) ==
  LET samplePoints == samplePointsAlongRoad(road.nodes, SampleInterval)
      affectedPoints == AffectedPoints(road, samplePoints, floodImage)
      totalLength == calculateRoadLength(road.nodes)
      affectedPercentage == Quot(affectedPoints * 100, Len(samplePoints))
  IN  [type |-> road.type, bridge |-> road.bridge, nodes |-> road.nodes,
       floodRisk |->
         [totalSamplePoints |-> Len(samplePoints),
          affectedPoints |-> affectedPoints,
          affectedPercentage |-> affectedPercentage,
          totalLength |-> totalLength,
          affectedLength |-> Quot(totalLength.num * affectedPoints,
                                  totalLength.den * Len(samplePoints)),
          isPartiallyFlooded |-> affectedPoints > 0,
          isMajorityFlooded |-> ~QuotLeq(affectedPercentage, Quot(50, 1))]]

\* mutant: the image is dropped after the first road
RoadsPass_imageForFirst(roads, onProgressArg, floodImage) ==
  IF Truthy(onProgressArg) /\ ~Callable(onProgressArg) /\ Len(roads) > 0
    THEN /\ libPc' = "rejected"
         /\ UNCHANGED <<libRet, notes>>
    ELSE /\ libRet' = [i \in 1..Len(roads) |->
                         AnalyzeRoad(roads[i],
                                     IF i = 1 THEN floodImage ELSE "null")]
         /\ notes' = Notify(onProgressArg,
                            ItemNotes(Len(roads), RoadsProgressEvery))
         /\ libPc' = "returned"

\* the forEach and the return of analyzeTransportationFloodRisk; the first
\* road's notification throws if onProgress is not a function
RoadsPass(roads, onProgressArg, floodImage) ==
  IF Truthy(onProgressArg) /\ ~Callable(onProgressArg) /\ Len(roads) > 0
    THEN /\ libPc' = "rejected"
         /\ UNCHANGED <<libRet, notes>>
    ELSE /\ libRet' = [i \in 1..Len(roads) |-> AnalyzeRoad(roads[i], floodImage)]
         /\ notes' = Notify(onProgressArg,
                            ItemNotes(Len(roads), RoadsProgressEvery))
         /\ libPc' = "returned"

\* analyzeTransportationFloodRisk(roads, mapBounds, activeFloodLayers,
\* onProgress): up to the await of the active tier's load, or to the end if
\* no flag is set
CallAnalyzeTransportation ==
  /\ libPc = "idle"
  /\ \E roads \in RoadLists, onProgressArg \in ProgressArgs,
        activeFloodLayers \in LayerFlags :
       /\ libFn' = "analyzeTransportationFloodRisk"
       /\ libArg' = [items |-> roads, onProgress |-> onProgressArg,
                     activeFloodLayers |-> activeFloodLayers]
       /\ IF ActiveTier(activeFloodLayers) = "none"
            THEN /\ RoadsPass(roads, onProgressArg, "null")
                 /\ UNCHANGED <<loadLog, images>>
            ELSE /\ loadLog' = <<ActiveTier(activeFloodLayers)>>
                 /\ images' =
                      [images EXCEPT ![ActiveTier(activeFloodLayers)] = "pending"]
                 /\ libPc' = "awaitRasters"
                 /\ UNCHANGED <<libRet, notes>>
  /\ UNCHANGED <<censusVars, handlerVars, fetchVars>>

\* the awaited load rejects: nothing catches it
RoadsLoadRejects ==
  /\ libFn = "analyzeTransportationFloodRisk" /\ libPc = "awaitRasters"
  /\ \E t \in Tiers :
       /\ images[t] = "pending"
       /\ images' = [images EXCEPT ![t] = "failed"]
  /\ libPc' = "rejected"
  /\ UNCHANGED <<libFn, libArg, libRet, loadLog, notes>>
  /\ UNCHANGED <<censusVars, handlerVars, fetchVars>>

\* the awaited load resolved: the forEach
TagRoads ==
  /\ libFn = "analyzeTransportationFloodRisk" /\ libPc = "awaitRasters"
  /\ \E t \in Tiers :
       /\ images[t] \in Contents
       /\ RoadsPass(libArg.items, libArg.onProgress, images[t])
  /\ UNCHANGED <<libFn, libArg, loadLog, images>>
  /\ UNCHANGED <<censusVars, handlerVars, fetchVars>>

\* sums of lengths: quotients added
QuotAdd(p, q) ==
  IF p.num = 0 THEN q
  ELSE IF q.num = 0 THEN p
  ELSE IF p.den = q.den THEN Quot(p.num + q.num, p.den)
  ELSE Quot(p.num * q.den + q.num * p.den, p.den * q.den)

\* stats.byType[type], created at the type's first road
TypeEntry(byType, type) ==
  IF type \in DOMAIN byType
    THEN byType[type]
    ELSE [count |-> 0, totalLength |-> Quot(0, 1),
          affectedCount |-> 0, affectedLength |-> Quot(0, 1)]

\* byType with the entry of one key replaced
Put(map, key, entry) ==
  [k \in DOMAIN map \cup {key} |-> IF k = key THEN entry ELSE map[k]]

\* the body of analyzedRoads.forEach
AddRoad(stats, road) ==
  LET length == road.floodRisk.totalLength
      affectedLength == road.floodRisk.affectedLength
      isAffected == road.floodRisk.isPartiallyFlooded
      old == TypeEntry(stats.byType, road.type)
      new == [count |-> old.count + 1,
              totalLength |-> QuotAdd(old.totalLength, length),
              affectedCount |->
                IF isAffected THEN old.affectedCount + 1
                              ELSE old.affectedCount,
              affectedLength |->
                IF isAffected THEN QuotAdd(old.affectedLength, affectedLength)
                              ELSE old.affectedLength]
  IN  [total |-> stats.total,
       totalLength |-> QuotAdd(stats.totalLength, length),
       affectedCount |->
         IF isAffected THEN stats.affectedCount + 1 ELSE stats.affectedCount,
       affectedLength |->
         IF isAffected THEN QuotAdd(stats.affectedLength, affectedLength)
                       ELSE stats.affectedLength,
       byType |-> Put(stats.byType, road.type, new),
       criticalInfrastructure |->
         IF road.bridge # "null" /\ road.floodRisk.isMajorityFlooded
           THEN Append(stats.criticalInfrastructure,
                       [type |-> road.type, infrastructure |-> "Bridge"])
           ELSE stats.criticalInfrastructure]

RECURSIVE AddRoads(_, _, _)
AddRoads(stats, roads, i) ==
  IF i > Len(roads)
    THEN stats
    ELSE AddRoads(AddRoad(stats, roads[i]), roads, i + 1)

generateTransportationStatistics(analyzedRoads) ==
  AddRoads([total |-> Len(analyzedRoads), totalLength |-> Quot(0, 1),
            affectedCount |-> 0, affectedLength |-> Quot(0, 1),
            byType |-> <<>>, criticalInfrastructure |-> <<>>],
           analyzedRoads, 1)

\* transportationStats = generateTransportationStatistics(analyzedRoads),
\* for the lists of at most MaxList roads
CallTransportationStatistics ==
  /\ libFn = "analyzeTransportationFloodRisk" /\ libPc = "returned"
  /\ Len(libRet) <= MaxList
  /\ libFn' = "generateTransportationStatistics"
  /\ libArg' = [items |-> libRet, onProgress |-> "undefined",
                activeFloodLayers |-> libArg.activeFloodLayers]
  /\ libRet' = generateTransportationStatistics(libRet)
  /\ UNCHANGED <<libPc, passVars, censusVars, handlerVars, fetchVars>>

----------------------------------------------------------------------------
(* landCoverService: calculateLandCoverStatistics *)

\* features as fetchLandCoverData delivers them; turf.centroid(geometry)
\* yields the centroid of a polygon and throws on an invalid geometry
LandCategories == {"forest", "water"}
LandDescriptions == {"Kiefernforst", "Seen"}
Geometries == {"polygon", "invalid", "null"}
Features ==
  [category : LandCategories, description : LandDescriptions,
   geometry : {"polygon"}, centroid : {Node(50), Node(120)}]
    \cup [category : LandCategories, description : LandDescriptions,
          geometry : {"invalid", "null"}, centroid : {Node(0)}]

\* { features, totalCount: features.length }, or no data at all
NullLandCover == [null |-> TRUE, features |-> <<>>, totalCount |-> 0]
LandCoverData ==
  {NullLandCover} \cup
  {[null |-> FALSE, features |-> fs, totalCount |-> Len(fs)] :
     fs \in ListsOf(Features)}

\* the early return for missing or empty data
NoLandCoverStats ==
  [totalFeatures |-> 0, affectedByFlooding |-> 0,
   byCategory |-> <<>>, byType |-> <<>>]

CountEntry(map, key) ==
  IF key \in DOMAIN map THEN map[key] ELSE [count |-> 0, affected |-> 0]

\* isAffected of one feature
FeatureAffected(feature, floodImage) ==
  /\ floodImage # "null"
  /\ feature.geometry = "polygon"
  /\ isPointFlooded(feature.centroid.lat, feature.centroid.lon,
                    Canvas(floodImage))

\* the body of the for loop over landCoverData.features
AddFeature(acc, feature, floodImage) ==
  LET isAffected == FeatureAffected(feature, floodImage)
      hit == IF isAffected THEN 1 ELSE 0
      cat == CountEntry(acc.byCategory, feature.category)
      typ == CountEntry(acc.byType, feature.description)
  IN  [totalAffected |-> acc.totalAffected + hit,
       byCategory |->
         Put(acc.byCategory, feature.category,
             [count |-> cat.count + 1, affected |-> cat.affected + hit]),
       byType |->
         Put(acc.byType, feature.description,
             [count |-> typ.count + 1, affected |-> typ.affected + hit])]

RECURSIVE AddFeatures(_, _, _, _)
AddFeatures(acc, features, i, floodImage) ==
  IF i > Len(features)
    THEN acc
    ELSE AddFeatures(AddFeature(acc, features[i], floodImage),
                     features, i + 1, floodImage)

\* the loop and the return of calculateLandCoverStatistics
LandCoverStats(landCoverData, floodImage) ==
  LET acc == AddFeatures([totalAffected |-> 0, byCategory |-> <<>>,
                          byType |-> <<>>],
                         landCoverData.features, 1, floodImage)
  IN  [totalFeatures |-> landCoverData.totalCount,
       affectedByFlooding |-> acc.totalAffected,
       byCategory |-> acc.byCategory, byType |-> acc.byType]

\* if (!landCoverData || landCoverData.totalCount === 0)
NoLandCover(landCoverData) ==
  landCoverData.null \/ landCoverData.totalCount = 0

\* calculateLandCoverStatistics(landCoverData, polygonLatLngs, mapBounds,
\* activeFloodLayers): up to the early return, to the await of the active
\* tier's load, or to the end if no flag is set
CallLandCoverStatistics ==
  /\ libPc = "idle"
  /\ \E landCoverData \in LandCoverData, activeFloodLayers \in LayerFlags :
       /\ libFn' = "calculateLandCoverStatistics"
       /\ libArg' = [items |-> landCoverData, onProgress |-> "undefined",
                     activeFloodLayers |-> activeFloodLayers]
       /\ IF NoLandCover(landCoverData)
            THEN /\ libRet' = NoLandCoverStats
                 /\ libPc' = "returned"
                 /\ UNCHANGED <<loadLog, images>>
            ELSE IF ActiveTier(activeFloodLayers) = "none"
            THEN /\ libRet' = LandCoverStats(landCoverData, "null")
                 /\ libPc' = "returned"
                 /\ UNCHANGED <<loadLog, images>>
            ELSE /\ loadLog' = <<ActiveTier(activeFloodLayers)>>
                 /\ images' =
                      [images EXCEPT ![ActiveTier(activeFloodLayers)] = "pending"]
                 /\ libPc' = "awaitRasters"
                 /\ UNCHANGED libRet
  /\ UNCHANGED <<notes, censusVars, handlerVars, fetchVars>>

\* the awaited load rejects: the catch warns, floodImage stays null
LandCoverLoadRejects ==
  /\ libFn = "calculateLandCoverStatistics" /\ libPc = "awaitRasters"
  /\ \E t \in Tiers :
       /\ images[t] = "pending"
       /\ images' = [images EXCEPT ![t] = "failed"]
  /\ libRet' = LandCoverStats(libArg.items, "null")
  /\ libPc' = "returned"
  /\ UNCHANGED <<libFn, libArg, loadLog, notes>>
  /\ UNCHANGED <<censusVars, handlerVars, fetchVars>>

\* the awaited load resolved: the loop
LandCoverCounts ==
  /\ libFn = "calculateLandCoverStatistics" /\ libPc = "awaitRasters"
  /\ \E t \in Tiers :
       /\ images[t] \in Contents
       /\ libRet' = LandCoverStats(libArg.items, images[t])
  /\ libPc' = "returned"
  /\ UNCHANGED <<libFn, libArg, loadLog, images, notes>>
  /\ UNCHANGED <<censusVars, handlerVars, fetchVars>>

----------------------------------------------------------------------------
(* floodAnalysisService: generateFloodStatistics *)

TotalEntry(map, key) ==
  IF key \in DOMAIN map THEN map[key] ELSE [total |-> 0, affected |-> 0]

\* building.type || 'unknown', building.category || 'Other'
OrDefault(value, default) == IF value = "" THEN default ELSE value

\* if (risk.highest !== 'none')
IsAffected_extremeOnly(risk) == risk.highest = "extreme"
IsAffected(risk) == risk.highest # "none"

\* the body of analyzedBuildings.forEach
AddBuilding(stats, building) ==
  LET risk == building.floodRisk
      one(flag) == IF flag THEN 1 ELSE 0
      type == OrDefault(building.type, "unknown")
      category == OrDefault(building.category, "Other")
      t == TotalEntry(stats.byType, type)
      c == TotalEntry(stats.byCategory, category)
  IN  [total |-> stats.total,
       affected |->
         [extreme |-> stats.affected.extreme + one(risk.extreme),
          high |-> stats.affected.high + one(risk.high),
          medium |-> stats.affected.medium + one(risk.medium),
          any |-> stats.affected.any + one(risk.highest # "none")],
       byType |->
         Put(stats.byType, type,
             [total |-> t.total + 1,
              affected |-> t.affected + one(IsAffected(risk))]),
       byCategory |->
         Put(stats.byCategory, category,
             [total |-> c.total + 1,
              affected |-> c.affected + one(IsAffected(risk))])]

RECURSIVE AddBuildings(_, _, _)
AddBuildings(stats, buildings, i) ==
  IF i > Len(buildings)
    THEN stats
    ELSE AddBuildings(AddBuilding(stats, buildings[i]), buildings, i + 1)

generateFloodStatistics(analyzedBuildings) ==
  AddBuildings([total |-> Len(analyzedBuildings),
                affected |-> [extreme |-> 0, high |-> 0, medium |-> 0,
                              any |-> 0],
                byType |-> <<>>, byCategory |-> <<>>],
               analyzedBuildings, 1)

\* const stats = generateFloodStatistics(analyzedBuildings), for the lists
\* of at most MaxList buildings
CallFloodStatistics ==
  /\ libFn = "analyzeBuildingsFloodRisk" /\ libPc = "returned"
  /\ Len(libRet) <= MaxList
  /\ libFn' = "generateFloodStatistics"
  /\ libArg' = [items |-> libRet, onProgress |-> "undefined",
                activeFloodLayers |-> libArg.activeFloodLayers]
  /\ libRet' = generateFloodStatistics(libRet)
  /\ UNCHANGED <<libPc, passVars, censusVars, handlerVars, fetchVars>>

----------------------------------------------------------------------------
(* censusPopulationService: calculateFloodAffectedPopulation *)

\* censusPopulation.total of the area
CensusTotals == {0, 5, 4000}

\* Math.round(x) of x = num / den, den > 0: the integer nearest to x, halves up
Round(num, den) == (2 * num + den) \div (2 * den)

\* Math.round(totalPopulation * (affected / totalBuildings)): 0 / 0 is NaN,
\* and so are its product and its rounding
Estimate(totalPopulation, affected, totalBuildings) ==
  IF totalBuildings = 0
    THEN [nan |-> TRUE, value |-> 0]
    ELSE [nan |-> FALSE,
          value |-> Round(totalPopulation * affected, totalBuildings)]

calculateFloodAffectedPopulation(analyzedBuildings, censusPopulation) ==
  LET totalBuildings == Len(analyzedBuildings)
      count(test(_)) == Len(SelectSeq(analyzedBuildings, test))
      affectedByExtreme == count(LAMBDA b : b.floodRisk.extreme)
      affectedByHigh == count(LAMBDA b : b.floodRisk.high)
      affectedByMedium == count(LAMBDA b : b.floodRisk.medium)
      affectedByAny == count(LAMBDA b : b.floodRisk.highest # "none")
      totalPopulation == censusPopulation.total
  IN  [total |-> totalPopulation,
       affected |->
         [extreme |-> Estimate(totalPopulation, affectedByExtreme, totalBuildings),
          high |-> Estimate(totalPopulation, affectedByHigh, totalBuildings),
          medium |-> Estimate(totalPopulation, affectedByMedium, totalBuildings),
          any |-> Estimate(totalPopulation, affectedByAny, totalBuildings)],
       communes |-> censusPopulation.communes]

\* populationStats = calculateFloodAffectedPopulation(analyzedBuildings,
\* censusPopulation), on the list the building pass returned: the handler
\* has no test of its length
CallFloodAffectedPopulation ==
  /\ libFn = "analyzeBuildingsFloodRisk" /\ libPc = "returned"
  /\ \E total \in CensusTotals :
       /\ libArg' = [items |-> libRet, onProgress |-> "undefined",
                     activeFloodLayers |-> libArg.activeFloodLayers]
       /\ libRet' = calculateFloodAffectedPopulation(
                      libRet, [total |-> total, communes |-> <<>>])
  /\ libFn' = "calculateFloodAffectedPopulation"
  /\ UNCHANGED <<libPc, passVars, censusVars, handlerVars, fetchVars>>

----------------------------------------------------------------------------
(* the analysis functions, each called with what its producer delivers *)

InitAnalysis == pc = "direct" /\ InitHandlerVars /\ InitFetchVars /\ InitLibVars

NextAnalysis ==
  \/ CallAnalyzeBuildings
  \/ LoadResolves
  \/ BuildingsLoadRejects
  \/ TagBuildings
  \/ CallFloodStatistics
  \/ CallFloodAffectedPopulation
  \/ CallAnalyzeTransportation
  \/ RoadsLoadRejects
  \/ TagRoads
  \/ CallTransportationStatistics
  \/ CallLandCoverStatistics
  \/ LandCoverLoadRejects
  \/ LandCoverCounts

SpecAnalysis == InitAnalysis /\ [][NextAnalysis]_vars

----------------------------------------------------------------------------
(* censusPopulationService *)

\* The communes of brandenburg_gemeinden_einwohner_3857.geojson. A commune
\* has a geometry or none, a census count, and the count's property, which
\* holds the count in decimal digits or is missing. `test` is what
\* turf.booleanIntersects(commune, polygon) does for the polygon analysed.
Digit(d) == <<"0", "1", "2", "3", "4", "5", "6", "7", "8", "9">>[d + 1]

RECURSIVE Decimal(_)
Decimal(n) ==
  IF n < 10 THEN <<Digit(n)>> ELSE Append(Decimal(n \div 10), Digit(n % 10))

Counts == {0, 500, 1500}
Commune(name, geometry, test, count, property) ==
  [name |-> name, geometry |-> geometry, test |-> test, count |-> count,
   property |-> property]
Communes ==
  {Commune("Nogeo", "null", "throws", 500, Decimal(500)),
   Commune("Broken", "polygon", "throws", 500, Decimal(500)),
   Commune("Apart", "polygon", "no", 500, Decimal(500)),
   Commune("Empty", "polygon", "yes", 0, <<>>)}
    \cup {Commune("Inside", "polygon", "yes", n, Decimal(n)) : n \in Counts}

MaxCommunes == 2
CommuneFiles == UNION {[1..n -> Communes] : n \in 0..MaxCommunes}

\* the calls of the two exported functions
Callers == {"first", "second"}
IdleCall == [fn |-> "none", pc |-> "idle", req |-> 0, got |-> 0,
             ret |-> [total |-> 0, communes |-> <<>>, communeCount |-> 0]]

\* parseInt(s, 10) of a string of digits: NaN for no digit
DigitValue(ch) == CHOOSE d \in 0..9 : Digit(d) = ch
IsDigit(ch) == \E d \in 0..9 : Digit(d) = ch

RECURSIVE DigitsValue(_, _, _)
DigitsValue(s, i, acc) ==
  IF i > Len(s) \/ ~IsDigit(s[i])
    THEN acc
    ELSE DigitsValue(s, i + 1, 10 * acc + DigitValue(s[i]))

parseInt(s) ==
  IF Len(s) = 0 \/ ~IsDigit(s[1])
    THEN [nan |-> TRUE, value |-> 0]
    ELSE [nan |-> FALSE, value |-> DigitsValue(s, 1, 0)]

\* parseInt(commune.properties[...] || '0', 10)
communePopulation(commune) ==
  parseInt(IF commune.property = <<>> THEN <<"0">> ELSE commune.property)

\* the entry pushed for a commune that intersects, with overlapPercentage 1.0
AffectedCommune_halfShare(commune, population) ==
  [name |-> commune.name, population |-> population,
   overlapPercentage |-> 50, estimatedInArea |-> population \div 2]
AffectedCommune(commune, population) ==
  [name |-> commune.name, population |-> population,
   overlapPercentage |-> 100, estimatedInArea |-> population]

\* the body of communes.features.forEach
AddCommune(acc, commune) ==
  IF commune.geometry = "null"
    THEN acc
  ELSE IF commune.test = "throws"
    THEN acc
  ELSE IF commune.test = "yes"
    THEN LET p == communePopulation(commune)
         IN  IF ~p.nan /\ p.value > 0
               THEN LET entry == AffectedCommune(commune, p.value)
                    IN  [total |-> acc.total + entry.estimatedInArea,
                         communes |-> Append(acc.communes, entry)]
               ELSE acc
  ELSE acc

RECURSIVE AddCommunes(_, _, _)
AddCommunes(acc, features, i) ==
  IF i > Len(features)
    THEN acc
    ELSE AddCommunes(AddCommune(acc, features[i]), features, i + 1)

\* calculateCensusPopulation after the await
PopulationOf(features) ==
  LET acc == AddCommunes([total |-> 0, communes |-> <<>>], features, 1)
  IN  [total |-> acc.total, communes |-> acc.communes,
       communeCount |-> Len(acc.communes)]

\* loadBrandenburgCommunes() up to its first await: the cached collection,
\* or a fetch; caller c calls it itself or through calculateCensusPopulation
Load(c, f) ==
  /\ loaders[c].pc = "idle"
  /\ IF communesData # 0
       THEN /\ loaders' = [loaders EXCEPT
                 ![c] = [@ EXCEPT !.fn = f, !.got = communesData,
                           !.pc = IF f = "calculateCensusPopulation"
                                    THEN "loaded" ELSE "returned"]]
            /\ UNCHANGED fetched
       ELSE /\ fetched' = fetched + 1
            /\ loaders' = [loaders EXCEPT
                 ![c] = [@ EXCEPT !.fn = f, !.req = fetched + 1,
                           !.pc = "awaitFetch"]]
  /\ UNCHANGED <<communesFile, communesData>>
  /\ UNCHANGED <<callVars, passVars, handlerVars, fetchVars>>

CallLoadBrandenburgCommunes ==
  \E c \in Callers : Load(c, "loadBrandenburgCommunes")

CallCalculateCensusPopulation ==
  \E c \in Callers : Load(c, "calculateCensusPopulation")

\* the fetch is answered with response.ok
CommunesFetched ==
  \E c \in Callers :
    /\ loaders[c].pc = "awaitFetch"
    /\ loaders' = [loaders EXCEPT ![c].pc = "awaitJson"]
    /\ UNCHANGED <<communesFile, communesData, fetched>>
    /\ UNCHANGED <<callVars, passVars, handlerVars, fetchVars>>

\* the fetch fails, the response is not ok, or its body is no JSON: the
\* catch rethrows
CommunesFailed ==
  \E c \in Callers :
    /\ loaders[c].pc \in {"awaitFetch", "awaitJson"}
    /\ loaders' = [loaders EXCEPT ![c].pc = "rejected"]
    /\ UNCHANGED <<communesFile, communesData, fetched>>
    /\ UNCHANGED <<callVars, passVars, handlerVars, fetchVars>>

\* communesData = await response.json(): the object parsed from the body of
\* the caller's own response
CommunesParsed ==
  \E c \in Callers :
    /\ loaders[c].pc = "awaitJson"
    /\ communesData' = loaders[c].req
    /\ loaders' = [loaders EXCEPT
         ![c] = [@ EXCEPT !.got = loaders[c].req,
                   !.pc = IF loaders[c].fn = "calculateCensusPopulation"
                            THEN "loaded" ELSE "returned"]]
    /\ UNCHANGED <<communesFile, fetched>>
    /\ UNCHANGED <<callVars, passVars, handlerVars, fetchVars>>

\* const communes = await loadBrandenburgCommunes() resolved: the forEach
CalculateCensusPopulation ==
  \E c \in Callers :
    /\ loaders[c].fn = "calculateCensusPopulation"
    /\ loaders[c].pc = "loaded"
    /\ loaders' = [loaders EXCEPT
         ![c] = [@ EXCEPT !.ret = PopulationOf(communesFile),
                   !.pc = "returned"]]
    /\ UNCHANGED <<communesFile, communesData, fetched>>
    /\ UNCHANGED <<callVars, passVars, handlerVars, fetchVars>>

\* the module is loaded, the server holds a commune file, nobody has called
InitCensus ==
  /\ pc = "direct" /\ InitHandlerVars /\ InitFetchVars
  /\ InitCallVars /\ InitPassVars
  /\ communesFile \in CommuneFiles
  /\ communesData = 0 /\ fetched = 0
  /\ loaders = [c \in Callers |-> IdleCall]

NextCensus ==
  \/ CallLoadBrandenburgCommunes
  \/ CallCalculateCensusPopulation
  \/ CommunesFetched
  \/ CommunesFailed
  \/ CommunesParsed
  \/ CalculateCensusPopulation

SpecCensus == InitCensus /\ [][NextCensus]_vars

----------------------------------------------------------------------------
(* processBuildings, processTransportation *)

\* The elements of an Overpass answer: nodes with an id and coordinates, ways
\* with an id, the ids of their nodes, and tags or none. The ids 3 and 4 are
\* of nodes the answer does not hold.
NodeElement(id, lat) ==
  [type |-> "node", id |-> id, lat |-> lat, lon |-> RoadLon,
   nodes |-> <<>>, hasTags |-> FALSE, building |-> "", highway |-> ""]
WayElement(id, nodes, hasTags, building, highway) ==
  [type |-> "way", id |-> id, lat |-> 0, lon |-> 0,
   nodes |-> nodes, hasTags |-> hasTags, building |-> building,
   highway |-> highway]

NodeRefs == {<<>>, <<1>>, <<1, 2>>, <<3>>, <<1, 3>>, <<3, 1, 4, 2>>}
Elements ==
  {NodeElement(1, 0), NodeElement(1, 50), NodeElement(2, 100)}
    \cup {WayElement(10, refs, TRUE, "yes", "") : refs \in NodeRefs}
    \cup {WayElement(10, refs, TRUE, "", "primary") : refs \in NodeRefs}
    \cup {WayElement(11, <<1, 2>>, TRUE, "", "residential"),
          WayElement(11, <<1>>, TRUE, "house", ""),
          WayElement(12, <<1, 2>>, TRUE, "", ""),
          WayElement(12, <<1, 2>>, FALSE, "", "")}

MaxElements == 3
ElementLists == UNION {[1..n -> Elements] : n \in 0..MaxElements}

\* nodeMap after the first forEach: the last node element of an id sets it
NodeIds(elements) ==
  {elements[i].id : i \in {k \in 1..Len(elements) : elements[k].type = "node"}}
NodeMap(elements) ==
  [id \in NodeIds(elements) |->
     LET last == CHOOSE i \in 1..Len(elements) :
                   /\ elements[i].type = "node" /\ elements[i].id = id
                   /\ \A j \in (i + 1)..Len(elements) :
                        ~(elements[j].type = "node" /\ elements[j].id = id)
     IN  [lat |-> elements[last].lat, lon |-> elements[last].lon]]

\* element.nodes.map(nodeId => nodeMap.get(nodeId))
\*   .filter(coord => coord !== undefined)
Coords(nodes, nodeMap) ==
  LET known == SelectSeq(nodes, LAMBDA id : id \in DOMAIN nodeMap)
  IN  [i \in 1..Len(known) |-> nodeMap[known[i]]]

\* if (coords.length < 2) return
TooFewForRoad_one(coords) == Len(coords) < 1
TooFewForRoad(coords) == Len(coords) < 2

RECURSIVE SumLat(_, _)
SumLat(coords, i) ==
  IF i > Len(coords) THEN 0 ELSE coords[i].lat + SumLat(coords, i + 1)

\* the average of the coordinates
Centroid(coords) ==
  [lat |-> Quot(SumLat(coords, 1), Len(coords)), lon |-> Quot(RoadLon, 1)]

\* the second forEach of processTransportation, on one element
RoadOf(element, nodeMap) ==
  IF element.type = "way" /\ element.hasTags /\ element.highway # ""
    THEN LET coords == Coords(element.nodes, nodeMap)
         IN  IF TooFewForRoad(coords)
               THEN <<>>
               ELSE <<[id |-> element.id, type |-> element.highway,
                       nodes |-> coords]>>
    ELSE <<>>

\* the second forEach of processBuildings, on one element
BuildingOf(element, nodeMap) ==
  IF element.type = "way" /\ element.hasTags /\ element.building # ""
    THEN IF Len(element.nodes) > 0
           THEN LET coords == Coords(element.nodes, nodeMap)
                IN  IF Len(coords) > 0
                      THEN <<[id |-> element.id, type |-> element.building,
                              centroid |-> Centroid(coords),
                              nodes |-> coords]>>
                      ELSE <<>>
           ELSE <<>>
    ELSE <<>>

RECURSIVE Collect(_, _, _, _)
Collect(Of(_, _), elements, nodeMap, i) ==
  IF i > Len(elements)
    THEN <<>>
    ELSE Of(elements[i], nodeMap) \o Collect(Of, elements, nodeMap, i + 1)

processTransportation(overpassData) ==
  Collect(RoadOf, overpassData, NodeMap(overpassData), 1)

processBuildings(overpassData) ==
  Collect(BuildingOf, overpassData, NodeMap(overpassData), 1)

\* a caller holds an Overpass answer
InitProcess ==
  /\ pc = "direct" /\ InitHandlerVars /\ InitFetchVars
  /\ InitPassVars /\ InitCensusVars
  /\ libFn = "none" /\ libPc = "idle" /\ libRet = <<>>
  /\ libArg \in ElementLists

ReturnProcessBuildings ==
  /\ libPc = "idle"
  /\ libFn' = "processBuildings"
  /\ libRet' = processBuildings(libArg)
  /\ libPc' = "returned"
  /\ UNCHANGED <<libArg, passVars, censusVars, handlerVars, fetchVars>>

ReturnProcessTransportation ==
  /\ libPc = "idle"
  /\ libFn' = "processTransportation"
  /\ libRet' = processTransportation(libArg)
  /\ libPc' = "returned"
  /\ UNCHANGED <<libArg, passVars, censusVars, handlerVars, fetchVars>>

NextProcess ==
  \/ ReturnProcessBuildings
  \/ ReturnProcessTransportation

SpecProcess == InitProcess /\ [][NextProcess]_vars

----------------------------------------------------------------------------
(* AnalysisResults.jsx: exportToCSV *)

\* Text is a sequence of characters; a word without comma or line break
\* stands as one character. building=* is free text of OpenStreetMap.
TypeTexts == {<<"house">>, <<"yes">>, <<"hut", ",", "shed">>}
TypeName(text) == IF Len(text) = 1 THEN text[1] ELSE "hut,shed"

Risks ==
  {[extreme |-> e, high |-> h, medium |-> m, highest |-> HighestRisk(e, h, m)] :
     e \in BOOLEAN, h \in BOOLEAN, m \in BOOLEAN}

AnalysedBuildings ==
  {[id |-> id, type |-> t, category |-> categorizeBuildingType(TypeName(t)),
    centroid |-> Node(50), floodRisk |-> r] :
     id \in {7, 12}, t \in TypeTexts, r \in Risks}

MaxRows == 2
AnalysedLists == UNION {[1..n -> AnalysedBuildings] : n \in 0..MaxRows}

\* Array.prototype.join
RECURSIVE join(_, _)
join(texts, separator) ==
  IF Len(texts) = 0 THEN <<>>
  ELSE IF Len(texts) = 1 THEN texts[1]
  ELSE texts[1] \o <<separator>> \o join(Tail(texts), separator)

\* (n).toFixed(6) of a whole number
toFixed6(n) == Decimal(n) \o <<".", "0", "0", "0", "0", "0", "0">>

YesNo(flag) == IF flag THEN <<"Yes">> ELSE <<"No">>

Headers ==
  <<(<<"Building ID">>), (<<"Type">>), (<<"Category">>), (<<"Latitude">>),
    (<<"Longitude">>), (<<"HQ-extrem">>), (<<"HQ-hoch">>), (<<"HQ-mittel">>),
    (<<"Highest Risk">>)>>

\* buildings.map(b => [...])
Row(b) ==
  <<Decimal(b.id), b.type, (<<b.category>>),
    toFixed6(b.centroid.lat), toFixed6(b.centroid.lon),
    YesNo(b.floodRisk.extreme), YesNo(b.floodRisk.high),
    YesNo(b.floodRisk.medium), (<<b.floodRisk.highest>>)>>

\* csvContent of exportToCSV
exportToCSV(buildings) ==
  join(<<join(Headers, ",")>>
         \o [i \in 1..Len(buildings) |-> join(Row(buildings[i]), ",")],
       "\n")

\* the results panel shows a list of analysed buildings
InitExport ==
  /\ pc = "direct" /\ InitHandlerVars /\ InitFetchVars
  /\ InitPassVars /\ InitCensusVars
  /\ libFn = "none" /\ libPc = "idle" /\ libRet = <<>>
  /\ libArg \in AnalysedLists

\* the Export CSV button
ExportToCSV ==
  /\ libPc = "idle"
  /\ libFn' = "exportToCSV"
  /\ libRet' = exportToCSV(libArg)
  /\ libPc' = "returned"
  /\ UNCHANGED <<libArg, passVars, censusVars, handlerVars, fetchVars>>

NextExport == ExportToCSV

SpecExport == InitExport /\ [][NextExport]_vars

----------------------------------------------------------------------------
(* FloodMap.jsx over a session: polygons, the layer control, Clear Analysis *)

\* polygons drawn and Clear Analysis clicks in a session
MaxRuns == 2
MaxClears == 1

\* what fetchBuildingsInPolygon rejects with; the classes of its errors are
\* told apart by SpecFetch
FetchErrors == {"ErrNetwork"}

\* buildings.length of a run: below and above the confirmation threshold
RunCounts == {1, ConfirmThreshold + 1}

\* a run at its first await: onAnalysisStart has been called; the handler
\* reads activeFloodLayers from the closure of the render that registered it
NewRun ==
  [pc |-> "awaitFetch", outcome |-> "pending", n |-> 0, popup |-> "none",
   layers |-> closureLayers,
   start |-> 1, complete |-> 0, error |-> 0]

\* map.on(CREATED) fires for a polygon: addLayer, onAnalysisStart, onProgress,
\* fetchBuildingsInPolygon is started
RunCreated ==
  /\ Len(runs) < MaxRuns
  /\ runs' = Append(runs, NewRun)
  /\ drawnItems' = drawnItems \cup {Len(runs) + 1}
  /\ SetUI(onProgress(onAnalysisStart(UI),
                       FetchingProgress.current, FetchingProgress.total))
  /\ UNCHANGED <<layerState, closureLayers, clears>>
  /\ UNCHANGED <<runVars, envVars, fetchVars, libVars>>

\* mutant: the catch block shows the popup and does not report the error
RunCatch_popupOnly(r, u, error, outcome, n) ==
  /\ runs' = [runs EXCEPT ![r].pc = "done", ![r].outcome = outcome,
                          ![r].n = n, ![r].popup = ErrorMessage(error)]
  /\ SetUI(u)
  /\ UNCHANGED <<layerState, closureLayers, drawnItems, clears>>
  /\ UNCHANGED <<runVars, envVars, fetchVars, libVars>>

\* catch (error) { ... layer.bindPopup(...); onAnalysisError(error) } of run r
RunCatch(r, u, error, outcome, n) ==
  /\ runs' = [runs EXCEPT ![r].pc = "done", ![r].outcome = outcome,
                          ![r].n = n, ![r].popup = ErrorMessage(error),
                          ![r].error = @ + 1]
  /\ SetUI(onAnalysisError(u, error))
  /\ UNCHANGED <<layerState, closureLayers, drawnItems, clears>>
  /\ UNCHANGED <<runVars, envVars, fetchVars, libVars>>

\* await fetchBuildingsInPolygon(latlngs) of run r rejects
RunFetchRejected(r) ==
  /\ runs[r].pc = "awaitFetch"
  /\ \E error \in FetchErrors : RunCatch(r, UI, error, "rejected", 0)

\* the fetch resolves and processBuildings throws
RunProcessThrows(r) ==
  /\ runs[r].pc = "awaitFetch"
  /\ RunCatch(r, UI, "TypeErrorElements", "invalid", 0)

\* the fetch resolves with more than 1000 buildings, window.confirm
\* answers false
RunCancelled(r) ==
  /\ runs[r].pc = "awaitFetch"
  /\ \E n \in RunCounts :
       /\ NeedsConfirm(n)
       /\ runs' = [runs EXCEPT ![r].pc = "done", ![r].outcome = "cancelled",
                               ![r].n = n, ![r].error = @ + 1]
       /\ SetUI(onAnalysisError(Found(UI, n), "ErrCancelled"))
  /\ drawnItems' = drawnItems \ {r}
  /\ UNCHANGED <<layerState, closureLayers, clears>>
  /\ UNCHANGED <<runVars, envVars, fetchVars, libVars>>

\* the fetch resolves, the run goes on to analyzeBuildingsFloodRisk(buildings,
\* mapBounds, activeFloodLayers, onProgress)
RunStartAnalysis(r) ==
  /\ runs[r].pc = "awaitFetch"
  /\ \E n \in RunCounts :
       IF AnalyzeEntryThrows
         THEN RunCatch(r, Found(UI, n), "TypeErrorNotFunction", "analysed", n)
         ELSE /\ runs' = [runs EXCEPT ![r].pc = "awaitRasters",
                                      ![r].outcome = "analysed", ![r].n = n]
              /\ SetUI(IF Callable(BoundArg("onProgress"))
                         THEN onProgress(Found(UI, n), 0, n)
                         ELSE Found(UI, n))
              /\ UNCHANGED <<layerState, closureLayers, drawnItems,
                             clears>>
              /\ UNCHANGED <<runVars, envVars, fetchVars, libVars>>

\* the continuation of run r after its await
RunStep(r) ==
  \/ RunFetchRejected(r)
  \/ RunProcessThrows(r)
  \/ RunCancelled(r)
  \/ RunStartAnalysis(r)

\* toggleFloodLayer(layerName): the handler registered by the effect with
\* the empty dependency list keeps the constant of its own render
ToggleFloodLayer ==
  /\ \E layerName \in Tiers :
       layerState' = [t \in Tiers |-> t = layerName]
  /\ UNCHANGED <<runs, closureLayers, drawnItems, clears>>
  /\ UNCHANGED <<appVars, runVars, envVars, fetchVars, libVars>>

\* clearDrawings: clearLayers(), onAnalysisComplete(null)
ClearDrawings ==
  /\ clears < MaxClears
  /\ clears' = clears + 1
  /\ drawnItems' = {}
  /\ SetUI(onAnalysisComplete(UI, NullResults))
  /\ UNCHANGED <<runs, layerState, closureLayers>>
  /\ UNCHANGED <<runVars, envVars, fetchVars, libVars>>

\* the application is mounted, nothing has been drawn
InitRuns == pc = "session" /\ InitHandlerVars /\ InitFetchVars /\ InitLibVars

NextRuns ==
  \/ RunCreated
  \/ \E r \in 1..Len(runs) : RunStep(r)
  \/ ToggleFloodLayer
  \/ ClearDrawings

\* every awaited fetch settles
SpecRuns ==
  /\ InitRuns /\ [][NextRuns]_vars
  /\ \A r \in 1..MaxRuns : WF_vars(r <= Len(runs) /\ RunStep(r))

----------------------------------------------------------------------------
(* Properties *)

CallsOf(cb) == SelectSeq(calls, LAMBDA c : c.cb = cb)

\* the run got past the confirmation and called analyzeBuildingsFloodRisk
AnalysisStarted ==
  /\ fn = "buildings" /\ fpc = "resolved" /\ result.valid
  /\ proceed # "no"
  /\ pc \notin {"idle", "awaitFetch", "direct"}

RunOver == pc = "done"

\* C1: a run whose building fetch returned a valid collection, that was not
\* cancelled and whose three raster loads succeed ends with one call of
\* onAnalysisComplete carrying one record per building, and no onAnalysisError
C1_DeliversBuildingResults ==
  (RunOver /\ AnalysisStarted /\ (\A t \in Tiers : wms[t]))
    => /\ Len(CallsOf("error")) = 0
       /\ CallsOf("complete") = <<Call("complete", 0, buildingsLength, "results")>>
       /\ analysisResults.buildings = buildingsLength

\* C2: when fetchBuildingsInPolygon rejects, no raster is loaded and no later
\* step runs; the run's calls end with exactly one onAnalysisError carrying
\* the thrown error, and onAnalysisComplete is not called
C2_FetchFailureAborts ==
  (fn = "buildings" /\ fpc = "rejected")
    => /\ pc \in {"awaitFetch", "done", "direct"}
       /\ rasterLoads = 0
       /\ Len(CallsOf("complete")) = 0
       /\ pc = "awaitFetch" => Len(CallsOf("error")) = 0
       /\ pc = "done" =>
            calls = <<Call("start", 0, 0, "none"),
                      Call("progress", 0, 0, "none"),
                      Call("error", 0, 0, thrown)>>

C2_Witness ==
  /\ pc = "done" /\ fn = "buildings" /\ fpc = "rejected"
  /\ thrown = "ErrServerTimeout" /\ ~isAnalyzing

\* C3: a run in which an optional path fails still calls onAnalysisComplete
\* with the building results, and the failed path's result is null
C3_OptionalFailureDegrades ==
  (RunOver /\ AnalysisStarted /\ (\A t \in Tiers : wms[t]) /\ optFails # {})
    => /\ Len(CallsOf("complete")) = 1
       /\ analysisResults.kind = "results"
       /\ \A path \in optFails : analysisResults[path] = "null"

FetchRunning == fpc \in {"awaitResp", "sleep"}
FetchSettled == fpc \in {"resolved", "rejected"}

C5_Outcome ==
  /\ fpc = "rejected" => okAt = 0 /\ thrown # "none"
  /\ fpc = "resolved" => okAt # 0 /\ result # NoData /\ result.id = okAt
  /\ okAt # 0 => fpc = "resolved"
  /\ ~FetchSettled => okAt = 0

C6_TimeoutMovesOn ==
  (fn = "buildings" /\ fpc = "awaitResp" /\ lastResp \in {"r503", "r504"})
    => /\ lastReq = prevReq + 1
       /\ attempt = 0

C6_Witness ==
  /\ fn = "buildings" /\ fpc = "awaitResp" /\ lastResp = "r503"
  /\ reqCount[prevReq] = 1 /\ lastReq = prevReq + 1

\* C7: after a 429 answer the function waits 5000 ms before anything else,
\* and a 429 on the first attempt is followed by a request to the same endpoint
C7_RateLimitCooldown ==
  (fn = "buildings" /\ lastResp = "r429")
    => /\ fpc = "sleep" => sleepMs = 5000
       /\ fpc = "awaitResp" =>
            /\ waited = 5000
            /\ lastReq = prevReq \/ reqCount[prevReq] = 2
       /\ fpc = "rejected" => waited = 5000
       /\ fpc \in {"sleep", "awaitResp", "rejected"}

C7_Witness ==
  /\ fn = "buildings" /\ fpc = "awaitResp" /\ lastResp = "r429"
  /\ lastReq = prevReq /\ waited = 5000

\* C8: a second request to the same endpoint is sent only after a wait
C8_RetryAfterBackoff ==
  (fn = "buildings" /\ fpc = "awaitResp" /\ reqTotal >= 2 /\ lastReq = prevReq)
    => waited > 0

ProgressCalls == CallsOf("progress")

\* C9: declining the confirmation ends the run with the layer removed and one
\* cancellation error, before any raster load; 1000 or fewer buildings ask for
\* no confirmation; a run asks at most once, before the analysis is started
C9_SingleCancellationPoint ==
  /\ proceed = "no" =>
       /\ pc = "done" /\ ~layerOnMap /\ rasterLoads = 0 /\ popup = "none"
       /\ buildingsLength > 1000
       /\ CallsOf("error") = <<Call("error", 0, 0, "ErrCancelled")>>
       /\ calls[Len(calls)].cb = "error"
       /\ Len(CallsOf("complete")) = 0
  /\ (pc \in {"done", "awaitRasters"} /\ fpc = "resolved" /\ result.valid) =>
       (confirmAsked = 1 <=> buildingsLength > 1000)
  /\ confirmAsked <= 1
  /\ confirmAsked = 1 <=> proceed # "none"
  /\ pc \in {"idle", "awaitFetch"} => confirmAsked = 0

C9_Witness ==
  /\ proceed = "no" /\ pc = "done" /\ buildingsLength = 1001 /\ ~layerOnMap

\* C10 as claimed: the processed-counts of a run's notifications strictly increase
C10_StrictlyIncreasing ==
  \A i, j \in 1..Len(ProgressCalls) :
    i < j => ProgressCalls[i].current < ProgressCalls[j].current

\* C10: the processed-counts of a run's notifications never decrease
C10_NeverDecreasing ==
  \A i, j \in 1..Len(ProgressCalls) :
    i < j => ProgressCalls[i].current <= ProgressCalls[j].current

C10_Witness ==
  /\ Len(ProgressCalls) = 2
  /\ ProgressCalls[1].current = 0 /\ ProgressCalls[2].current = 0
  /\ ProgressCalls[2].total = 1001

PointReturned == libFn = "isPointFlooded" /\ libPc = "returned"

\* the queried point lies in the half-open box the pixel grid covers
InBox(lat, lon, b) ==
  /\ b.west <= lon /\ lon < b.east
  /\ b.south < lat /\ lat <= b.north

\* C14: isPointFlooded is true exactly when the point's pixel lies in the
\* grid and has alpha > 10 and one of r, g, b > 10, the pixel being the one
\* whose cell holds the point; a point outside the grid, the east and south
\* edges included, is not flooded, a pixel of alpha 0 is not flooded, and the
\* centre of the box maps to pixel (400, 400) of the 800x800 image
C14_PointFlooded ==
  PointReturned =>
    LET lat == libArg.lat
        lon == libArg.lon
        img == libArg.imageData
        b == img.bounds
        px == PixelX(lon, img)
        py == PixelY(lat, img)
        p == getImageData(img, px, py)
    IN  /\ (px * (b.east - b.west) <= (lon - b.west) * 800
            /\ (lon - b.west) * 800 < (px + 1) * (b.east - b.west))
        /\ (py * (b.north - b.south) <= (b.north - lat) * 800
            /\ (b.north - lat) * 800 < (py + 1) * (b.north - b.south))
        /\ libRet = (/\ 0 <= px /\ px < 800 /\ 0 <= py /\ py < 800
                     /\ p.a > 10 /\ (p.r > 10 \/ p.g > 10 \/ p.b > 10))
        /\ (~InBox(lat, lon, b) => libRet = FALSE)
        /\ (lon = b.east \/ lat = b.south => libRet = FALSE)
        /\ (p.a = 0 => libRet = FALSE)
        /\ (2 * lon = b.west + b.east /\ 2 * lat = b.south + b.north
              => px = 400 /\ py = 400)

\* a point on the east edge of the box was classified against an opaque,
\* coloured image
C14_Witness ==
  /\ PointReturned
  /\ libArg.lon = libArg.imageData.bounds.east
  /\ libArg.lat = libArg.imageData.bounds.north
  /\ libArg.imageData.from = <<0, 0>>
  /\ libArg.imageData.ink.a = 200 /\ libArg.imageData.ink.b = 200

SampleReturned == libFn = "samplePointsAlongRoad" /\ libPc = "returned"

\* 0, the multiples of 50 strictly between 0 and d, and d
ExpectedDistances(d) ==
  <<0>> \o [k \in 1..((d - 1) \div 50) |-> 50 * k] \o <<d>>

\* the nodes lie at increasing latitudes
Ascending(nodes) ==
  \A i \in 1..(Len(nodes) - 1) : nodes[i].lat < nodes[i + 1].lat

\* C17: for two vertices d metres apart, samplePointsAlongRoad with interval
\* 50 yields the points at 0, at every multiple of 50 strictly between 0 and
\* d, and at d, each once and in increasing order (0, 50, 100, 120 for
\* d = 120); on a road of several vertices every vertex is sampled once
C17_SampledOnce ==
  (SampleReturned /\ Ascending(libArg.nodes)) =>
    LET nodes == libArg.nodes
        d == nodes[2].lat - nodes[1].lat
    IN  /\ Len(nodes) = 2 =>
             [i \in 1..Len(libRet) |-> libRet[i].lat - nodes[1].lat]
               = ExpectedDistances(d)
        /\ \A v \in 1..Len(nodes) :
             Cardinality({i \in 1..Len(libRet) : libRet[i] = nodes[v]}) = 1

PassReturned(f) == libFn = f /\ libPc = "returned"

\* the notifications the items of the forEach emitted
ItemNotesOf == SelectSeq(notes, LAMBDA n : n.index >= 0)

\* the items at every every-th position (the first, and each every-th after
\* it) and the last item notified, each once and in order, with the count of
\* items processed so far; the pass's last notification carries n of n
CadenceHolds(every) ==
  LET n == Len(libArg.items)
      its == ItemNotesOf
  IN  /\ {its[k].index : k \in 1..Len(its)}
           = {i \in 0..(n - 1) : i % every = 0 \/ i = n - 1}
      /\ \A k \in 1..(Len(its) - 1) : its[k].index < its[k + 1].index
      /\ \A k \in 1..Len(its) :
           its[k].current = its[k].index + 1 /\ its[k].total = n
      /\ notes[Len(notes)].current = n /\ notes[Len(notes)].total = n

\* C11: a tagging pass over n >= 1 items with a progress subscriber notifies
\* exactly for the items at every 50th position (buildings; every 100th for
\* roads) and for the final item, never twice for one item, and its last
\* notification carries processed = total = n
C11_ProgressCadence ==
  /\ (/\ PassReturned("analyzeBuildingsFloodRisk")
      /\ Callable(libArg.onProgress) /\ Len(libArg.items) >= 1)
       => CadenceHolds(50)
  /\ (/\ PassReturned("analyzeTransportationFloodRisk")
      /\ Callable(libArg.onProgress) /\ Len(libArg.items) >= 1)
       => CadenceHolds(100)

\* a pass over 102 roads notified its subscriber for the roads 1, 101, 102
C11_Witness ==
  /\ PassReturned("analyzeTransportationFloodRisk")
  /\ Callable(libArg.onProgress) /\ Len(libArg.items) = 102
  /\ [k \in 1..Len(ItemNotesOf) |-> ItemNotesOf[k].current] = <<1, 101, 102>>

\* C15: every building analyzeBuildingsFloodRisk returns has highest =
\* 'extreme' if its extreme flag is set, else 'high' if its high flag is set,
\* else 'medium' if its medium flag is set, else 'none'; highest is 'none'
\* exactly when the three flags are false
C15_HighestTier ==
  PassReturned("analyzeBuildingsFloodRisk") =>
    \A i \in 1..Len(libRet) :
      LET risk == libRet[i].floodRisk
      IN  /\ risk.highest =
               (IF risk.extreme THEN "extreme"
                ELSE IF risk.high THEN "high"
                ELSE IF risk.medium THEN "medium"
                ELSE "none")
          /\ (risk.highest = "none")
               <=> (~risk.extreme /\ ~risk.high /\ ~risk.medium)

\* a building in the high and the medium zone, not in the extreme one
C15_Witness ==
  /\ PassReturned("analyzeBuildingsFloodRisk")
  /\ \E i \in 1..Len(libRet) :
       /\ ~libRet[i].floodRisk.extreme
       /\ libRet[i].floodRisk.high /\ libRet[i].floodRisk.medium
       /\ libRet[i].floodRisk.highest = "high"

\* the first set flag in the order extreme, high, medium
FirstActive(flags) ==
  IF \E k \in 1..3 : flags[TierOrder[k]]
    THEN TierOrder[CHOOSE k \in 1..3 :
                     /\ flags[TierOrder[k]]
                     /\ \A j \in 1..(k - 1) : ~flags[TierOrder[j]]]
    ELSE "none"

PassUnderWay(f) ==
  libFn = f /\ libPc \in {"awaitRasters", "returned", "rejected"}

\* the building pass loaded the three rasters and evaluated each of them for
\* every building
AllTiersEvaluated ==
  /\ PassUnderWay("analyzeBuildingsFloodRisk") /\ loadLog # <<>>
       => /\ Len(loadLog) = 3
          /\ {loadLog[k] : k \in 1..3} = {"extreme", "high", "medium"}
  /\ PassReturned("analyzeBuildingsFloodRisk") =>
       \A i \in 1..Len(libRet) : \A t \in Tiers :
         libRet[i].floodRisk[t] =
           isPointFlooded(libRet[i].centroid.lat, libRet[i].centroid.lon,
                          Canvas(images[t]))

\* the pass loaded the active tier's raster, and nothing else
OneTierLoaded ==
  loadLog = IF FirstActive(libArg.activeFloodLayers) = "none"
              THEN <<>>
              ELSE <<FirstActive(libArg.activeFloodLayers)>>

\* C16 as stated: the building pass loads and evaluates the three tier rasters
\* for every building; the land-parcel pass and the road pass each load at
\* most one raster, that of the first set flag, and exactly one whenever a
\* flag is set
C16_ActiveTierOnly ==
  /\ AllTiersEvaluated
  /\ PassUnderWay("analyzeTransportationFloodRisk") => OneTierLoaded
  /\ PassUnderWay("calculateLandCoverStatistics") => OneTierLoaded

\* C16, amended: as C16, but the land-parcel pass loads no raster when it is
\* given no parcel
C16_ActiveTierUnlessEmpty ==
  /\ AllTiersEvaluated
  /\ PassUnderWay("analyzeTransportationFloodRisk") => OneTierLoaded
  /\ PassUnderWay("calculateLandCoverStatistics") =>
       IF libArg.items.null \/ Len(libArg.items.features) = 0
         THEN loadLog = <<>>
         ELSE OneTierLoaded

\* a land-parcel pass over some parcels with the high and the medium flag
\* set loaded the high raster only
C16_Witness ==
  /\ PassReturned("calculateLandCoverStatistics")
  /\ Len(libArg.items.features) > 0
  /\ ~libArg.activeFloodLayers["extreme"]
  /\ libArg.activeFloodLayers["high"] /\ libArg.activeFloodLayers["medium"]
  /\ loadLog = <<"high">>
  /\ libRet.affectedByFlooding > 0

\* C18: every road analyzeTransportationFloodRisk returns has at least as
\* many sample points as vertices, 0 <= affectedPoints <= totalSamplePoints,
\* affectedLength <= totalLength, isPartiallyFlooded exactly when
\* affectedPoints > 0, and isMajorityFlooded only if isPartiallyFlooded
C18_RoadRecord ==
  PassReturned("analyzeTransportationFloodRisk") =>
    \A i \in 1..Len(libRet) :
      LET risk == libRet[i].floodRisk
      IN  /\ risk.totalSamplePoints >= Len(libRet[i].nodes)
          /\ 0 <= risk.affectedPoints
          /\ risk.affectedPoints <= risk.totalSamplePoints
          /\ risk.affectedLength.num * risk.totalLength.den
               <= risk.totalLength.num * risk.affectedLength.den
          /\ risk.isPartiallyFlooded <=> (risk.affectedPoints > 0)
          /\ risk.isMajorityFlooded => risk.isPartiallyFlooded

\* a road flooded at some but not all of its sample points, most of them
C18_Witness ==
  /\ PassReturned("analyzeTransportationFloodRisk")
  /\ \E i \in 1..Len(libRet) :
       /\ libRet[i].floodRisk.affectedPoints > 0
       /\ libRet[i].floodRisk.affectedPoints
            < libRet[i].floodRisk.totalSamplePoints
       /\ libRet[i].floodRisk.totalSamplePoints > Len(libRet[i].nodes)
       /\ libRet[i].floodRisk.isMajorityFlooded

RECURSIVE SumOver(_, _, _)
SumOver(map, keys, field) ==
  IF keys = {}
    THEN 0
    ELSE LET k == CHOOSE x \in keys : TRUE
         IN  map[k][field] + SumOver(map, keys \ {k}, field)

SumOf(map, field) == SumOver(map, DOMAIN map, field)

C12_LoadedOnce ==
  /\ fetched <= 1
  /\ \A c \in Callers :
       (loaders[c].got # 0 /\ loaders[c].got = loaders[c].req)
         => communesData = loaders[c].got

CalcReturned(c) ==
  loaders[c].fn = "calculateCensusPopulation" /\ loaders[c].pc = "returned"

\* the communes of the file whose polygon intersects the analysis area
Intersecting ==
  {i \in 1..Len(communesFile) :
     communesFile[i].geometry = "polygon" /\ communesFile[i].test = "yes"}

RECURSIVE CountSum(_)
CountSum(S) ==
  IF S = {}
    THEN 0
    ELSE LET i == CHOOSE x \in S : TRUE
         IN  communesFile[i].count + CountSum(S \ {i})

RECURSIVE EstimateSum(_, _)
EstimateSum(list, i) ==
  IF i > Len(list) THEN 0 ELSE list[i].estimatedInArea + EstimateSum(list, i + 1)

\* C20: calculateCensusPopulation returns as total the sum of the full census
\* counts of the communes that intersect the area; it lists exactly the
\* intersecting communes of positive count, each with estimatedInArea = its
\* full count, so total is the sum of the listed estimates; a commune whose
\* intersection test throws is skipped, the call does not fail and the other
\* communes count as they do without it
C20_FullPopulation ==
  \A c \in Callers :
    CalcReturned(c) =>
      LET ret == loaders[c].ret
          listed == SelectSeq([i \in 1..Len(communesFile) |-> i],
                              LAMBDA i : i \in Intersecting
                                         /\ communesFile[i].count > 0)
      IN  /\ ret.total = CountSum(Intersecting)
          /\ Len(ret.communes) = Len(listed)
          /\ \A k \in 1..Len(listed) :
               /\ ret.communes[k].name = communesFile[listed[k]].name
               /\ ret.communes[k].population = communesFile[listed[k]].count
               /\ ret.communes[k].estimatedInArea = communesFile[listed[k]].count
          /\ ret.total = EstimateSum(ret.communes, 1)
          /\ ret.communeCount = Len(listed)

\* a call returned 1500 for a file of a commune whose test throws and an
\* intersecting commune of 1500
C20_Witness ==
  \E c \in Callers :
    /\ CalcReturned(c)
    /\ Len(communesFile) = 2
    /\ communesFile[1].geometry = "polygon" /\ communesFile[1].test = "throws"
    /\ communesFile[2].test = "yes" /\ communesFile[2].count = 1500
    /\ loaders[c].ret.total = 1500

\* the run ended with an error that is not the user's cancellation
FailedRun ==
  /\ pc = "done"
  /\ Len(CallsOf("error")) = 1
  /\ CallsOf("error")[1].val # "ErrCancelled"

ErrorClasses == {"AreaTooLarge", "FetchUnavailable", "Generic"}

\* fetchBuildingsInPolygon failed, and all its requests were answered from S
AllAnswered(S) ==
  fn = "buildings" /\ fpc = "rejected" /\ respSeen # {} /\ respSeen \subseteq S

\* C13: every failed run shows exactly one of the three classes: area too
\* large / timeout when all building requests were answered 503 or 504,
\* upstream service unavailable when all were answered 429 or another HTTP
\* error status, and generic failure for any other failure
C13_ThreeClasses ==
  FailedRun =>
    /\ popup \in ErrorClasses
    /\ popup = IF AllAnswered({"r503", "r504"}) THEN "AreaTooLarge"
               ELSE IF AllAnswered({"r429", "rOther"}) THEN "FetchUnavailable"
               ELSE "Generic"

\* C13 (amended): every failed run shows exactly one of the three classes,
\* the one of the error that ended it. All requests answered 503 or 504 is
\* area too large / timeout; all answered 429 or another error status is
\* upstream service unavailable. When the answers were mixed, the class is
\* that of the last answer that was not a 429: 503 or 504 is area too large,
\* another error status is unavailable, a network error is generic. A failure
\* after the fetch is generic.
C13_ClassOfLastError ==
  FailedRun =>
    /\ popup \in ErrorClasses
    /\ popup = ErrorMessage(CallsOf("error")[1].val)
    /\ AllAnswered({"r503", "r504"}) => popup = "AreaTooLarge"
    /\ AllAnswered({"r429", "rOther"}) => popup = "FetchUnavailable"
    /\ AllAnswered(Responses) =>
         /\ lastResp \in {"r503", "r504"} => popup = "AreaTooLarge"
         /\ lastResp = "rOther" => popup = "FetchUnavailable"
         /\ lastResp = "netErr" => popup = "Generic"
         /\ lastResp = "r429" =>
              popup = CASE lastError = "ErrServerTimeout" -> "AreaTooLarge"
                        [] lastError = "ErrNetwork" -> "Generic"
                        [] OTHER -> "FetchUnavailable"
         /\ popup = "AreaTooLarge" => respSeen \cap {"r503", "r504"} # {}
         /\ popup = "Generic" => "netErr" \in respSeen
    /\ ~(fn = "buildings" /\ fpc = "rejected") => popup = "Generic"

\* a run whose requests met network errors and then 503s ended as area too
\* large
C13_Witness ==
  /\ FailedRun
  /\ AllAnswered({"netErr", "r503"})
  /\ "netErr" \in respSeen /\ lastResp = "r503"
  /\ popup = "AreaTooLarge"

PopulationReturned ==
  libFn = "calculateFloodAffectedPopulation" /\ libPc = "returned"

\* the buildings of the list that a tier, or any tier, floods
AffectedIn(items, tier) ==
  {i \in 1..Len(items) :
     IF tier = "any" THEN items[i].floodRisk.highest # "none"
                     ELSE items[i].floodRisk[tier]}

\* v is the integer nearest to p * k / n, halves up
NearestTo(v, p, k, n) ==
  2 * n * v <= 2 * p * k + n /\ 2 * p * k + n < 2 * n * (v + 1)

NodesOf(elements) == SelectSeq(elements, LAMBDA e : e.type = "node")
WaysOf(elements) == SelectSeq(elements, LAMBDA e : e.type = "way")
NodesFirst(elements) == NodesOf(elements) \o WaysOf(elements)
NodesLast(elements) == WaysOf(elements) \o NodesOf(elements)

\* the node ids of a way that the answer holds, in the way's order
Resolved(way, elements) ==
  SelectSeq(way.nodes,
            LAMBDA id : \E i \in 1..Len(elements) :
                          elements[i].type = "node" /\ elements[i].id = id)

\* the ways that must yield a feature, in input order
KeptWays(elements, tag, least) ==
  SelectSeq(elements,
            LAMBDA e : /\ e.type = "way" /\ e.hasTags /\ e[tag] # ""
                       /\ Len(Resolved(e, elements)) >= least)

\* C22: processBuildings and processTransportation return for every answer,
\* also when ways name nodes the answer does not hold: those nodes are left
\* out of the geometry, a road way with fewer than 2 and a building way with
\* no node left is omitted, every other tagged way yields exactly one feature,
\* in input order, and the result is the same whether the node elements come
\* before or after the ways
C22_AbsentNodesTolerated ==
  /\ (libFn = "processTransportation" /\ libPc = "returned") =>
       LET kept == KeptWays(libArg, "highway", 2)
       IN  /\ Len(libRet) = Len(kept)
           /\ \A k \in 1..Len(kept) :
                /\ libRet[k].id = kept[k].id
                /\ libRet[k].type = kept[k].highway
                /\ Len(libRet[k].nodes) = Len(Resolved(kept[k], libArg))
                /\ Len(libRet[k].nodes) >= 2
           /\ libRet = processTransportation(NodesFirst(libArg))
           /\ libRet = processTransportation(NodesLast(libArg))
  /\ (libFn = "processBuildings" /\ libPc = "returned") =>
       LET kept == KeptWays(libArg, "building", 1)
       IN  /\ Len(libRet) = Len(kept)
           /\ \A k \in 1..Len(kept) :
                /\ libRet[k].id = kept[k].id
                /\ libRet[k].type = kept[k].building
                /\ Len(libRet[k].nodes) = Len(Resolved(kept[k], libArg))
                /\ Len(libRet[k].nodes) >= 1
           /\ libRet = processBuildings(NodesFirst(libArg))
           /\ libRet = processBuildings(NodesLast(libArg))

\* the nodes come after the way: a road of four node ids, two of them
\* absent, is kept with the two nodes the answer holds
C22_Witness ==
  /\ libFn = "processTransportation" /\ libPc = "returned"
  /\ Len(libArg) = 3
  /\ libArg[1].type = "way" /\ libArg[1].nodes = <<3, 1, 4, 2>>
  /\ libArg[1].highway = "primary"
  /\ libArg[2].type = "node" /\ libArg[2].id = 2
  /\ libArg[3].type = "node" /\ libArg[3].id = 1
  /\ Len(libRet) = 1
  /\ libRet[1].nodes = <<Node(libArg[3].lat), Node(100)>>

\* text.split(separator): the stretches between the separators
Split(text, separator) ==
  LET at == {i \in 1..Len(text) : text[i] = separator}
      cut(k) == IF k = 0 THEN 0
                ELSE IF k > Cardinality(at) THEN Len(text) + 1
                ELSE CHOOSE p \in at : Cardinality({q \in at : q < p}) = k - 1
  IN  [k \in 1..(Cardinality(at) + 1) |->
         SubSeq(text, cut(k - 1) + 1, cut(k) - 1)]

\* the data lines of the exported file, each split on commas
ParsedRows ==
  LET lines == Split(libRet, "\n")
  IN  [i \in 1..(Len(lines) - 1) |-> Split(lines[i + 1], ",")]

\* C23: the exported CSV has one data line per building, and splitting a
\* line on commas gives the building's identifier in the first, its category
\* in the third and its highest tier in the ninth field, whatever the type
\* tag of the building is
C23_RoundTrip ==
  (libFn = "exportToCSV" /\ libPc = "returned") =>
    /\ Len(ParsedRows) = Len(libArg)
    /\ \A i \in 1..Len(libArg) :
         /\ Len(ParsedRows[i]) = Len(Headers)
         /\ ParsedRows[i][1] = Decimal(libArg[i].id)
         /\ ParsedRows[i][3] = <<libArg[i].category>>
         /\ ParsedRows[i][9] = <<libArg[i].floodRisk.highest>>

\* C24: in the building pass the three loads are started before the first
\* await, no building is classified before all three have delivered, and
\* when one of them fails the pass rejects and returns no risk record
C24_LoadsJoined ==
  /\ (libFn = "analyzeBuildingsFloodRisk" /\ libPc = "awaitRasters") =>
       /\ loadLog = TierOrder
       /\ \A t \in Tiers : images[t] # "none"
       /\ libRet = <<>>
  /\ PassReturned("analyzeBuildingsFloodRisk") =>
       /\ loadLog = TierOrder
       /\ \A t \in Tiers : images[t] \in Contents
  /\ (libFn = "analyzeBuildingsFloodRisk"
        /\ \E t \in Tiers : images[t] = "failed") =>
       /\ libPc = "rejected"
       /\ libRet = <<>>

\* two tiers delivered, the third load failed: the pass over two buildings
\* rejected
C24_Witness ==
  /\ libFn = "analyzeBuildingsFloodRisk" /\ libPc = "rejected"
  /\ Len(libArg.items) = 2
  /\ images["extreme"] = "wetAll" /\ images["high"] = "wetPart"
  /\ images["medium"] = "failed"
  /\ libRet = <<>>

\* a step in which a pass classifies its features
Classifies(f) == libFn' = f /\ libRet' # libRet

\* the image of the one tier a road or land-parcel pass loaded, as the
\* step leaves it: none if no tier was loaded or the load failed
LoadedImage ==
  IF loadLog' = <<>> THEN "null"
  ELSE IF images'[loadLog'[1]] \in Contents THEN images'[loadLog'[1]]
  ELSE "null"

ErrorOf(response) ==
  CASE response \in {"r503", "r504"} -> "ErrServerTimeout"
    [] response = "rOther" -> "ErrStatus"
    [] response = "netErr" -> "ErrNetwork"
    [] response = "r429" -> "ErrAllFailed"

\* C30: the error fetchBuildingsInPolygon throws describes the outcome of
\* the last request it issued
C30_DescribesLastRequest ==
  (fn = "buildings" /\ fpc = "rejected") => thrown = ErrorOf(lastResp)

Terminals(run) == run.complete + run.error

\* C26: every run calls onAnalysisStart once and at most one terminal
\* callback, onAnalysisComplete or onAnalysisError; a run has made its
\* terminal callback exactly when it is over; and, every awaited fetch
\* settling, every run comes to make it
C26_OneTerminalCallback ==
  /\ [](\A r \in 1..Len(runs) :
          /\ runs[r].start = 1
          /\ Terminals(runs[r]) <= 1
          /\ (runs[r].pc = "done") <=> (Terminals(runs[r]) = 1)
          /\ Len(CallsOf("start")) = Len(runs))
  /\ \A r \in 1..MaxRuns :
       (Len(runs) >= r) ~> (Len(runs) >= r /\ Terminals(runs[r]) = 1)

\* two runs are over: one was cancelled, one failed, each with its one
\* onAnalysisError
C26_Witness ==
  /\ Len(runs) = 2
  /\ runs[1].outcome = "cancelled" /\ runs[2].outcome = "rejected"
  /\ runs[1].error = 1 /\ runs[2].error = 1
  /\ Len(CallsOf("error")) = 2

\* C27: isAnalyzing is true whenever a run has started and has not made
\* its terminal callback
C27_OverlayWhileRunning ==
  (\E r \in 1..Len(runs) : Terminals(runs[r]) = 0) => isAnalyzing

\* Clear Analysis was clicked after the last polygon was drawn
ClearedSinceLastPolygon ==
  \E i \in 1..Len(calls) :
    /\ calls[i].cb = "complete" /\ calls[i].val = "null"
    /\ \A j \in (i + 1)..Len(calls) : calls[j].cb # "start"

\* C28: once all runs are over, analysisResults is null if Clear Analysis
\* was clicked after the last polygon was drawn, and otherwise holds the
\* results of the last polygon's run, where that run went on to the analysis
\* of its buildings; results on display are never those of an earlier run
C28_LatestResultsShown ==
  (Len(runs) > 0 /\ \A r \in 1..Len(runs) : runs[r].pc = "done") =>
    LET last == runs[Len(runs)]
    IN  /\ ClearedSinceLastPolygon => analysisResults = NullResults
        /\ (~ClearedSinceLastPolygon /\ last.outcome = "analysed") =>
             /\ analysisResults.kind = "results"
             /\ analysisResults.buildings = last.n
        /\ analysisResults.kind = "results" =>
             /\ ~ClearedSinceLastPolygon
             /\ last.outcome = "analysed"

\* C29: exactly one flag of activeFloodLayers is true, and the flags a run
\* hands to its passes are those selected when its polygon is created
C29_SelectedTierUsed ==
  /\ [](Cardinality({t \in Tiers : layerState[t]}) = 1)
  /\ [][Len(runs') = Len(runs) + 1 =>
          runs'[Len(runs')].layers = layerState]_vars

====
